---- MODULE Spec2Model ----
(***************************************************************************)
(* Model of the UDP audio bridge of rust-udp-mqtt: the ESP audio protocol  *)
(* codec and session record (esp_audio_protocol.rs), the audio receiver    *)
(* tasks and the control handler (transport_udp.rs), and the persistent    *)
(* upstream bridge with its writer and reader tasks (transport_openai.rs). *)
(*                                                                         *)
(* Granularity: a receiver task takes one step per access to state shared  *)
(* between tasks (one critical section of the session map lock, one write  *)
(* of the active-device cell, one queue operation).  UDP replies and the   *)
(* WAV file write touch nothing another task reads; they are recorded in   *)
(* the step that follows them in the code's straight-line order.           *)
(***************************************************************************)
EXTENDS Integers, Sequences, FiniteSets, TLC

(***************************************************************************)
(* Bounds of the model.                                                    *)
(***************************************************************************)
\* number of datagrams on the audio port (specifications Spec and SpecLoss)
MaxInputs == 3
\* number of datagrams plus upstream events (specification SpecRoute)
MaxRouteInputs == 3
\* config.channel_capacity: the capacity of the queue to the VAD processors
ChannelCapacity == 2

(***************************************************************************)
(* Program constants (esp_audio_protocol.rs, transport_openai.rs).         *)
(***************************************************************************)
ESP_HEADER_SIZE == 4
ESP_MAX_PAYLOAD == 1400
PKT_AUDIO_UP == 1
PKT_AUDIO_DOWN == 2
PKT_CONTROL == 3
PKT_HEARTBEAT == 4
FLAG_START == 1
FLAG_END == 2
FLAG_URGENT == 4
CTRL_SESSION_START == 1
CTRL_SESSION_END == 2
CTRL_STREAM_START == 3
CTRL_STREAM_END == 4
CTRL_ACK == 5
CTRL_CANCEL == 6
CTRL_SERVER_READY == 7
DATA_TYPE_AUDIO == 1
DATA_TYPE_SENSOR_VECTOR == 2
\* capacity of the bridge audio-chunk queue and of the control-event queue
AUDIO_CHANNEL_CAP == 512
CONTROL_CHANNEL_CAP == 64
\* 2^16: the width of u16
U16 == 65536

\* Option<T>: None is the empty sequence, Some(x) the one-element sequence
None == <<>>
Some(x) == <<x>>
IsSome(o) == o # <<>>
Unwrap(o) == o[1]

(***************************************************************************)
(* Wire codec (esp_audio_protocol.rs).  Frames are sequences of bytes.     *)
(***************************************************************************)
\* u16::to_le_bytes
U16LE(n) == <<n % 256, n \div 256>>

build_packet(seq_num, pkt_type, flags, payload) ==
    U16LE(seq_num) \o <<pkt_type, flags>> \o payload

build_control(seq_num, cmd, flags) == build_packet(seq_num, PKT_CONTROL, flags, <<cmd>>)

\* build_heartbeat answering with the next sequence number
build_heartbeat_next(seq_num) == build_packet((seq_num + 1) % U16, PKT_HEARTBEAT, 0, <<>>)

build_heartbeat(seq_num) == build_packet(seq_num, PKT_HEARTBEAT, 0, <<>>)

build_audio_down(seq_num, flags, pcm) == build_packet(seq_num, PKT_AUDIO_DOWN, flags, pcm)

\* EspPacket::parse without the check of the packet type
parse_any_type(buf) ==
    IF Len(buf) < ESP_HEADER_SIZE THEN None
    ELSE LET payload == SubSeq(buf, ESP_HEADER_SIZE + 1, Len(buf))
         IN  IF Len(payload) > ESP_MAX_PAYLOAD THEN None
             ELSE Some([seq_num |-> buf[1] + 256 * buf[2], pkt_type |-> buf[3],
                        flags |-> buf[4], payload |-> payload])

\* EspPacket::parse: None, or Some(packet)
parse(buf) ==
    IF Len(buf) < ESP_HEADER_SIZE THEN None
    ELSE LET seq_num == buf[1] + 256 * buf[2]
             pkt_type == buf[3]
             flags == buf[4]
             payload == SubSeq(buf, ESP_HEADER_SIZE + 1, Len(buf))
         IN  IF pkt_type \notin {PKT_AUDIO_UP, PKT_AUDIO_DOWN, PKT_CONTROL, PKT_HEARTBEAT}
             THEN None
             ELSE IF Len(payload) > ESP_MAX_PAYLOAD THEN None
             ELSE Some([seq_num |-> seq_num, pkt_type |-> pkt_type,
                        flags |-> flags, payload |-> payload])

\* EspPacket::is_end: (flags & FLAG_END) != 0
is_end(pkt) == (pkt.flags \div FLAG_END) % 2 = 1

\* EspPacket::control_cmd
control_cmd(pkt) ==
    IF pkt.pkt_type = PKT_CONTROL /\ pkt.payload # <<>> THEN Some(pkt.payload[1]) ELSE None

(***************************************************************************)
(* Session record (esp_audio_protocol.rs, EspSession).  The address, the   *)
(* MAC and the start timestamp are left out: no handler reads them.        *)
(***************************************************************************)
EspSession_new ==
    [state |-> "Idle", out_seq |-> 0, last_recv_seq |-> 0, audio_packets |-> 0,
     audio_bytes |-> 0, audio_buffer |-> <<>>, packets_lost |-> 0]

\* u16::saturating_add
wrapping_add_sat(a, b) == IF a + b >= U16 THEN U16 - 1 ELSE a + b

\* u16 wrapping_add / wrapping_sub
wrapping_add(a, b) == (a + b) % U16
wrapping_sub(a, b) == (a - b + U16) % U16

\* a loss count that measures the distance from the last sequence number itself
loss_gap_from_last(s, seq) ==
    IF s.audio_packets > 0
    THEN LET expected == wrapping_add(s.last_recv_seq, 1)
         IN  IF seq # expected THEN wrapping_sub(seq, s.last_recv_seq) ELSE 0
    ELSE 0

\* the amount record_audio adds to packets_lost
loss_gap(s, seq) ==
    IF s.audio_packets > 0
    THEN LET expected == wrapping_add(s.last_recv_seq, 1)
         IN  IF seq # expected THEN wrapping_sub(seq, expected) ELSE 0
    ELSE 0

\* "+=" on the u32 packets_lost: a window of at most MaxInputs + 1 packets, each
\* adding less than 2^16, stays far below 2^32, so the sum is the plain one here
u32_add(a, b) == a + b

\* a record_audio that counts the frame header into the byte count
record_audio_framed(s, seq, payload) ==
    [s EXCEPT !.packets_lost = u32_add(s.packets_lost, loss_gap(s, seq)),
              !.last_recv_seq = seq,
              !.audio_packets = s.audio_packets + 1,
              !.audio_bytes = s.audio_bytes + ESP_HEADER_SIZE + Len(payload),
              !.audio_buffer = s.audio_buffer \o payload]

record_audio(s, seq, payload) ==
    [s EXCEPT !.packets_lost = u32_add(s.packets_lost, loss_gap(s, seq)),
              !.last_recv_seq = seq,
              !.audio_packets = s.audio_packets + 1,
              !.audio_bytes = s.audio_bytes + Len(payload),
              !.audio_buffer = s.audio_buffer \o payload]

reset(s) ==
    [s EXCEPT !.state = "Idle", !.audio_packets = 0, !.audio_bytes = 0,
              !.audio_buffer = <<>>, !.packets_lost = 0]

(***************************************************************************)
(* Resampler and fragmentation (transport_openai.rs).                      *)
(***************************************************************************)
\* i16::from_le_bytes and i16::to_le_bytes
i16_from_le(lo, hi) == LET u == lo + 256 * hi IN IF u >= 32768 THEN u - U16 ELSE u
i16_to_le(s) == LET u == IF s < 0 THEN s + U16 ELSE s IN <<u % 256, u \div 256>>

\* f64::round of the rational n / d (d > 0): half away from zero
round_div(n, d) ==
    IF n >= 0 THEN (2 * n + d) \div (2 * d) ELSE 0 - ((2 * (0 - n) + d) \div (2 * d))

\* a resampler that places output sample j at j * n_in / n_out
resample_scaled(pcm, from_rate, to_rate) ==
    LET n_in == Len(pcm) \div 2
    IN  IF n_in = 0 THEN <<>>
        ELSE LET src == [i \in 0..(n_in - 1) |-> i16_from_le(pcm[2 * i + 1], pcm[2 * i + 2])]
                 n_out == (n_in * to_rate) \div from_rate
             IN  IF n_out <= 1 THEN i16_to_le(src[0])
                 ELSE LET d == n_out
                          sample(j) ==
                              LET num == j * n_in
                                  idx == num \div d
                                  r == num % d
                              IN  IF idx + 1 < n_in
                                  THEN round_div(src[idx] * (d - r) + src[idx + 1] * r, d)
                                  ELSE src[n_in - 1]
                          out == [j \in 0..(n_out - 1) |-> i16_to_le(sample(j))]
                      IN  [k \in 1..(2 * n_out) |-> out[(k - 1) \div 2][((k - 1) % 2) + 1]]

\* a resampler that rounds the number of output samples up
resample_ceil(pcm, from_rate, to_rate) ==
    LET n_in == Len(pcm) \div 2
    IN  IF n_in = 0 THEN <<>>
        ELSE LET src == [i \in 0..(n_in - 1) |-> i16_from_le(pcm[2 * i + 1], pcm[2 * i + 2])]
                 n_out == (n_in * to_rate + from_rate - 1) \div from_rate
             IN  IF n_out <= 1 THEN i16_to_le(src[0])
                 ELSE LET d == n_out - 1
                          sample(j) ==
                              LET num == j * (n_in - 1)
                                  idx == num \div d
                                  r == num % d
                              IN  IF idx + 1 < n_in
                                  THEN round_div(src[idx] * (d - r) + src[idx + 1] * r, d)
                                  ELSE src[n_in - 1]
                          out == [j \in 0..(n_out - 1) |-> i16_to_le(sample(j))]
                      IN  [k \in 1..(2 * n_out) |-> out[(k - 1) \div 2][((k - 1) % 2) + 1]]

\* fn resample: linear interpolation of 16-bit little-endian samples
resample(pcm, from_rate, to_rate) ==
    LET n_in == Len(pcm) \div 2
    IN  IF n_in = 0 THEN <<>>
        ELSE LET src == [i \in 0..(n_in - 1) |-> i16_from_le(pcm[2 * i + 1], pcm[2 * i + 2])]
                 n_out == (n_in * to_rate) \div from_rate
             IN  IF n_out <= 1 THEN i16_to_le(src[0])
                 ELSE LET d == n_out - 1
                          sample(j) ==
                              LET num == j * (n_in - 1)
                                  idx == num \div d
                                  r == num % d
                              IN  IF idx + 1 < n_in
                                  THEN round_div(src[idx] * (d - r) + src[idx + 1] * r, d)
                                  ELSE src[n_in - 1]
                          out == [j \in 0..(n_out - 1) |-> i16_to_le(sample(j))]
                      IN  [k \in 1..(2 * n_out) |-> out[(k - 1) \div 2][((k - 1) % 2) + 1]]

resample_16k_to_24k(pcm) == resample(pcm, 16000, 24000)

resample_24k_to_16k(pcm) == resample(pcm, 24000, 16000)

\* slice::rchunks(n): the fragments from the end of the slice
chunks_rev(bytes, n) ==
    LET k == (Len(bytes) + n - 1) \div n
    IN  [i \in 1..k |->
            SubSeq(bytes, IF Len(bytes) > i * n THEN Len(bytes) - i * n + 1 ELSE 1,
                   Len(bytes) - (i - 1) * n)]

\* slice::chunks(n): the fragments of at most n bytes, in order
chunks(bytes, n) ==
    [i \in 1..((Len(bytes) + n - 1) \div n) |->
        SubSeq(bytes, (i - 1) * n + 1, IF i * n < Len(bytes) THEN i * n ELSE Len(bytes))]

(***************************************************************************)
(* State.                                                                  *)
(***************************************************************************)
VARIABLES
    env,            \* which inputs the environment offers: "main", "route", "loss", "turn"
    persistent_oai, \* TRUE when the upstream bridge exists (config.openai_realtime)
    n_in,           \* inputs consumed so far
    parse_errors,   \* stats.record_parse_error
    sessions,       \* SessionMap: address -> [session, openai_tx]
    pc,             \* position of each audio receiver task
    cur,            \* the datagram a task is handling: [id, src, pkt, buf]
    session_data,   \* SESSION_END's snapshot (Option)
    fwd_tx,         \* AudioUp's (should_forward, openai_tx) pair
    sent,           \* frames a task sent on the audio socket for its datagram
    active_esp,     \* OpenAiSession.active_esp: Option<address>
    audio_q,        \* audio_tx / audio_rx
    ctrl_q,         \* control_tx / ws_msg_rx
    r_pc,           \* position of the bridge reader task
    r_ev,           \* the upstream event the reader is handling
    r_esp,          \* the reader's current_esp
    r_chunks,       \* fragments of the current delta not yet sent
    out_seq,        \* the reader's out_seq
    r_sent,         \* frames the reader sent for its current event
    wav_files,      \* save_session_wav calls: [id, win, file]
    ws_out,         \* the events the writer task wrote to the WebSocket, in order
    vad_q,          \* tx / rx: the queue of SensorPackets to the VAD processors
    channel_drops,  \* stats.channel_drops
    win,            \* history: how many times each address entered Receiving
    window,         \* history: AudioUp payloads recorded in the current window
    applied,        \* history: datagram ids in the order the session map saw them
    closed_win,     \* history: the window a task's SESSION_END took out of Receiving
    rec_win,        \* history: the window a task's AudioUp was recorded in (0: not recorded)
    client_map,     \* ClientMap: sensor id -> Option<address>, the last-seen sender
    s_pc,           \* position of each sensor receiver task
    s_cur,          \* the sensor datagram a task is handling: [n, src, packet]
    s_in,           \* sensor datagrams consumed so far
    vad_rx,         \* the queue of VadResults to the response handler
    n_res,          \* VadResults produced so far
    rs_pc,          \* position of the response handler
    rs_cur,         \* the VadResult the response handler is handling
    rs_dst,         \* the address the response handler looked up (Option)
    resp_sent,      \* the replies sent on the sensor socket: [dst, sensor_id, seq, res]
    recorded,       \* history: per sensor id, the (datagram, address) pairs inserted, in order
    persona,        \* PersonaState.inner: the value behind the RwLock
    w_lock,         \* the handler that holds the write lock (0: nobody)
    h_pc,           \* position of each REST handler task
    h_req,          \* the request a handler is serving
    h_new,          \* set_persona's new_persona
    h_old,          \* set_persona's old
    h_resp,         \* the response a handler returned last: [status, persona, index]
    n_req,          \* requests accepted so far
    sync_obs,       \* what the last get_blocking returned: [value, held]
    installed,      \* history: the personas installed by set, in order
    down_log,       \* history: the frames the bridge reader sent, in order: [ev, frame]
    upstream_lost,  \* TRUE once the WebSocket gave a read error or the peer's close frame
    reader_exited,  \* TRUE once the bridge reader task left its loop
    writer_exited,  \* TRUE once the bridge writer task left its loop
    res_call,       \* a call of resample: [pcm, from_rate, to_rate]
    res_ret,        \* what the call returned (Option)
    vad_closed,     \* TRUE once every sender of the dispatcher's input queue is dropped
    rx_guard,       \* the worker that holds the mutex around rx (0: nobody)
    wk_pc,          \* position of each VAD processor worker
    wk_pkt,         \* the packet a worker is processing (Option)
    taken,          \* history: the packets the workers dequeued: [worker, pkt, closed]
    smoother        \* SensorSmoother.state: sensor id -> idle_time EMA, in millionths

vars == <<env, persistent_oai, n_in, parse_errors, sessions, pc, cur, session_data,
          fwd_tx, sent, active_esp, audio_q, ctrl_q, r_pc, r_ev, r_esp, r_chunks,
          out_seq, r_sent, wav_files, ws_out, vad_q, channel_drops, win, window, applied, closed_win,
          rec_win, client_map, s_pc, s_cur, s_in, vad_rx, n_res, rs_pc, rs_cur, rs_dst,
          resp_sent, recorded, persona, w_lock, h_pc, h_req, h_new, h_old, h_resp, n_req,
          sync_obs, installed, down_log, upstream_lost, reader_exited, writer_exited,
          res_call, res_ret, vad_closed, rx_guard, wk_pc, wk_pkt, taken, smoother>>

task_vars == <<pc, cur, session_data, fwd_tx, sent>>
bridge_q == <<audio_q, ctrl_q>>
vad_vars == <<vad_q, channel_drops>>
reader_vars == <<r_pc, r_ev, r_esp, r_chunks, out_seq, r_sent>>
history == <<win, window, applied, closed_win, rec_win>>
sensor_vars == <<client_map, s_pc, s_cur, s_in, vad_rx, n_res, rs_pc, rs_cur, rs_dst,
                 resp_sent, recorded>>
persona_vars == <<persona, w_lock, h_pc, h_req, h_new, h_old, h_resp, n_req, sync_obs,
                  installed>>
life_vars == <<upstream_lost, reader_exited, writer_exited>>
resample_vars == <<res_call, res_ret>>
proc_vars == <<vad_closed, rx_guard, wk_pc, wk_pkt, taken, smoother>>
others == <<sensor_vars, persona_vars, down_log, life_vars, resample_vars, proc_vars>>

Addrs == {"A", "B"}
\* the audio receiver tasks: they share one socket and one session map
Tasks == {1, 2}

(***************************************************************************)
(* The environment: the datagrams devices send to the audio port and the   *)
(* events the upstream service sends on the WebSocket.                     *)
(***************************************************************************)
Datagram(src, buf) == [src |-> src, buf |-> buf]

MainInputs ==
    { Datagram("A", build_control(1, CTRL_SESSION_START, FLAG_START)),
      Datagram("A", build_control(258, CTRL_SESSION_END, 0)),
      Datagram("A", build_control(3, CTRL_CANCEL, 0)),
      Datagram("A", build_packet(0, PKT_AUDIO_UP, 0, <<10, 11>>)),
      Datagram("A", build_packet(65535, PKT_AUDIO_UP, FLAG_END, <<12>>)),
      Datagram("A", build_packet(7, PKT_AUDIO_UP, 0, <<>>)) }

RouteInputs ==
    { Datagram("A", build_control(1, CTRL_SESSION_START, FLAG_START)),
      Datagram("A", build_control(258, CTRL_SESSION_END, 0)),
      Datagram("A", build_control(3, CTRL_CANCEL, 0)),
      Datagram("A", build_packet(0, PKT_AUDIO_UP, 0, <<10, 11>>)),
      Datagram("B", build_control(65535, CTRL_SESSION_START, FLAG_START)),
      Datagram("B", build_control(9, CTRL_CANCEL, 0)) }

\* an upstream event; delta is the base64-decoded PCM of response.audio.delta
RouteEvents ==
    { [type |-> "response.audio.delta", delta |-> <<1, 0, 255, 255, 3, 0, 4, 0>>],
      [type |-> "response.audio.done", delta |-> <<>>] }

LossSeqs == {0, 1, 3, 65535}
LossInputs ==
    { Datagram("A", build_packet(q, PKT_AUDIO_UP, 0, <<1>>)) : q \in LossSeqs }
      \cup { Datagram("A", build_control(1, CTRL_SESSION_START, FLAG_START)) }

\* 700 bytes of PCM, different for each k
Pcm700(k) == [i \in 1..700 |-> (k + i) % 256]
TurnScript ==
    << Datagram("A", build_control(1, CTRL_SESSION_START, FLAG_START)),
       Datagram("A", build_packet(10, PKT_AUDIO_UP, 0, Pcm700(10))),
       Datagram("A", build_packet(11, PKT_AUDIO_UP, 0, Pcm700(11))),
       Datagram("A", build_packet(13, PKT_AUDIO_UP, 0, Pcm700(13))),
       Datagram("A", build_control(14, CTRL_SESSION_END, FLAG_END)) >>

\* control datagrams of device A that make the handler issue a control event
FullInputs ==
    { Datagram("A", build_control(1, CTRL_SESSION_START, FLAG_START)),
      Datagram("A", build_control(3, CTRL_CANCEL, 0)) }

\* the number of SessionStart datagrams handled before specification SpecFull
\* starts: one short of filling the control-event queue
HandledBefore == CONTROL_CHANNEL_CAP - 1

\* the number of AudioUp datagrams that arrive in specification SpecAudioFull
MaxFullAudio == 2

\* AudioUp datagram number i of device A in specification SpecAudioFull
FullAudio(i) == Datagram("A", build_packet(i, PKT_AUDIO_UP, 0, <<1>>))

\* the number of datagrams handled before specification SpecAudioFull starts:
\* a SessionStart and as many AudioUp as the audio-chunk queue holds
AudioHandledBefore == AUDIO_CHANNEL_CAP + 1

\* the number of datagrams in specification SpecFrames
MaxFrames == 3

\* n bytes of PCM
PcmOf(n) == [i \in 1..n |-> i % 256]

\* well-formed and malformed datagrams: a SessionStart, an AudioUp with the
\* largest payload, heartbeats without and with a payload, an empty datagram,
\* one of three bytes, unknown type bytes, an AudioUp one byte too long
FrameInputs ==
    { Datagram("A", build_control(1, CTRL_SESSION_START, FLAG_START)),
      Datagram("A", build_packet(2, PKT_AUDIO_UP, 0, PcmOf(ESP_MAX_PAYLOAD))),
      Datagram("A", build_heartbeat(513)),
      Datagram("B", build_packet(65535, PKT_HEARTBEAT, FLAG_URGENT, <<9>>)),
      Datagram("A", <<>>),
      Datagram("A", <<3, 0, PKT_CONTROL>>),
      Datagram("A", build_packet(4, 0, 0, <<CTRL_SESSION_START>>)),
      Datagram("B", build_packet(5, 5, 0, <<>>)),
      Datagram("A", build_packet(6, PKT_AUDIO_UP, 0, PcmOf(ESP_MAX_PAYLOAD + 1))) }

\* the number of datagrams plus upstream events in specification SpecDelta
MaxDeltaInputs == 3

\* a SessionStart of device A
DeltaInputs ==
    { Datagram("A", build_control(1, CTRL_SESSION_START, FLAG_START)) }

\* reply audio of 3000 samples and of 4 samples, and the end of the response
DeltaEvents ==
    { [type |-> "response.audio.delta", delta |-> PcmOf(6000)],
      [type |-> "response.audio.delta", delta |-> <<1, 0, 255, 255, 3, 0, 4, 0>>],
      [type |-> "response.audio.done", delta |-> <<>>] }

\* the number of upstream events in specification SpecFrag
MaxFragEvents == 3

\* reply audio of 1052 samples, which are 701 samples at 16 kHz and so two
\* fragments; reply audio of four samples; the end of the response
FragEvents ==
    { [type |-> "response.audio.delta", delta |-> PcmOf(2104)],
      [type |-> "response.audio.delta", delta |-> <<1, 0, 255, 255, 3, 0, 4, 0>>],
      [type |-> "response.audio.done", delta |-> <<>>] }

\* the number of datagrams plus upstream events in specification SpecLost
MaxLostInputs == 3

\* reply audio of four samples and the end of the response
LostEvents ==
    { [type |-> "response.audio.delta", delta |-> <<1, 0, 255, 255, 3, 0, 4, 0>>],
      [type |-> "response.audio.done", delta |-> <<>>] }

\* the datagrams that may arrive next
Arrivals ==
    CASE env = "turn" -> IF n_in < Len(TurnScript) THEN {TurnScript[n_in + 1]} ELSE {}
      [] env = "audiofull" -> IF n_in < AudioHandledBefore + MaxFullAudio
                              THEN {FullAudio(n_in + 1)} ELSE {}
      [] env = "frames" -> IF n_in < MaxFrames THEN FrameInputs ELSE {}
      [] env = "delta" -> IF n_in < MaxDeltaInputs THEN DeltaInputs ELSE {}
      [] env = "frag" -> {}
      [] env = "lost" -> IF n_in < MaxLostInputs THEN DeltaInputs ELSE {}
      [] env = "full" -> IF n_in < HandledBefore + MaxInputs THEN FullInputs ELSE {}
      [] env = "loss" -> IF n_in < MaxInputs THEN LossInputs ELSE {}
      [] env = "route" -> IF n_in < MaxRouteInputs THEN RouteInputs ELSE {}
      [] OTHER -> IF n_in < MaxInputs THEN MainInputs ELSE {}

\* the upstream events that may arrive next
Events ==
    CASE env = "route" -> IF persistent_oai /\ n_in < MaxRouteInputs THEN RouteEvents ELSE {}
      [] env = "delta" -> IF n_in < MaxDeltaInputs THEN DeltaEvents ELSE {}
      [] env = "frag" -> IF n_in < 1 + MaxFragEvents THEN FragEvents ELSE {}
      [] env = "lost" -> IF n_in < MaxLostInputs THEN LostEvents ELSE {}
      [] OTHER -> {}

NoDatagram == [id |-> 0, src |-> "none", pkt |-> None, buf |-> <<>>]

(***************************************************************************)
(* Persona (persona.rs) and the REST surface (api.rs).                     *)
(***************************************************************************)
\* how many REST requests are accepted
MaxRequests == 3

\* PersonaTrait::ALL, by their JSON names
PersonaTrait == {"obedient", "mischievous", "cute", "stubborn"}

\* PersonaTrait::index
index(p) ==
    CASE p = "obedient" -> 0
      [] p = "mischievous" -> 1
      [] p = "cute" -> 2
      [] p = "stubborn" -> 3

\* PersonaTrait::from_index
from_index(i) ==
    CASE i = 0 -> Some("obedient")
      [] i = 1 -> Some("mischievous")
      [] i = 2 -> Some("cute")
      [] i = 3 -> Some("stubborn")
      [] OTHER -> None

\* the persona the state is created with
InitialPersona == "obedient"

\* get_blocking falling back to another persona
get_blocking_cute(value, write_held) == IF write_held THEN "cute" ELSE value

\* get_blocking reading through a writer's lock
get_blocking_read(value, write_held) == value

\* PersonaState::get_blocking: try_read fails while a writer holds the lock
get_blocking(value, write_held) == IF write_held THEN "obedient" ELSE value

\* the REST handler tasks
Handlers == {1, 2}

BAD_REQUEST == 400
OK == 200

\* a PUT /persona body after deserialisation (index is a u8)
PutBody(p, i) == [method |-> "PUT", persona |-> p, index |-> i]
GetRequest == [method |-> "GET", persona |-> None, index |-> None]

\* request req as the handler holds it; its arrival number n goes along for the record
Accepted(req, n) ==
    [method |-> req.method, persona |-> req.persona, index |-> req.index, n |-> n]

\* the requests that may arrive
ApiRequests ==
    { GetRequest,
      PutBody(Some("stubborn"), None),
      PutBody(Some("cute"), Some(9)),
      PutBody(None, Some(0)),
      PutBody(None, Some(1)),
      PutBody(None, Some(3)),
      PutBody(None, Some(4)),
      PutBody(None, Some(255)),
      PutBody(None, None) }

\* set_persona clamping the index
new_persona_clamp(req) ==
    CASE IsSome(req.persona) -> req.persona
      [] IsSome(req.index) -> from_index(IF Unwrap(req.index) > 3 THEN 3 ELSE Unwrap(req.index))
      [] OTHER -> None

\* set_persona: match (req.persona, req.index); None stands for the 400 branches
new_persona(req) ==
    CASE IsSome(req.persona) -> req.persona
      [] IsSome(req.index) -> from_index(Unwrap(req.index))
      [] OTHER -> None

\* Json(PersonaResponse { persona, index })
PersonaResponse(p) == [status |-> OK, persona |-> p, index |-> index(p)]
\* (StatusCode::BAD_REQUEST, Json(ErrorResponse { .. }))
ErrorResponse == [status |-> BAD_REQUEST, persona |-> "none", index |-> 0]
NoResponse == [status |-> 0, persona |-> "none", index |-> 0]

\* PersonaState::new and an idle REST server
PersonaInit ==
    /\ persona = InitialPersona
    /\ w_lock = 0
    /\ h_pc = [h \in Handlers |-> "idle"]
    /\ h_req = [h \in Handlers |-> Accepted(GetRequest, 0)]
    /\ h_new = [h \in Handlers |-> "none"]
    /\ h_old = [h \in Handlers |-> "none"]
    /\ h_resp = [h \in Handlers |-> NoResponse]
    /\ n_req = 0
    /\ sync_obs = [value |-> "none", held |-> FALSE]
    /\ installed = <<>>

(***************************************************************************)
(* Sensor wire format (sensor.rs) and the sensor port's inputs.            *)
(***************************************************************************)
\* how many sensor datagrams arrive
MaxSensorInputs == 3
\* how many sensor datagrams arrive while the response handler is watched
MaxReplyInputs == 2
\* how many VadResults reach the response handler
MaxResults == 2

HEADER_SIZE == 32

RECURSIVE le_bytes(_, _)
\* n.to_le_bytes() of a k-byte unsigned integer
le_bytes(n, k) == IF k = 0 THEN <<>> ELSE <<n % 256>> \o le_bytes(n \div 256, k - 1)

RECURSIVE from_le_bytes(_)
\* uN::from_le_bytes
from_le_bytes(b) == IF b = <<>> THEN 0 ELSE b[1] + 256 * from_le_bytes(Tail(b))

\* a sensor datagram in the wire format: 32 bytes of header, then the payload
sensor_datagram(sensor_id, timestamp_us, data_type, seq, payload_len, payload) ==
    le_bytes(sensor_id, 4) \o le_bytes(timestamp_us, 8) \o <<data_type, 0, 0, 0>>
    \o le_bytes(payload_len, 2) \o <<0, 0>> \o le_bytes(seq, 8) \o <<0, 0, 0, 0>> \o payload

\* SensorPacket::from_binary
from_binary(buf) ==
    IF Len(buf) < HEADER_SIZE THEN None
    ELSE LET payload_len == from_le_bytes(SubSeq(buf, 17, 18))
         IN  IF Len(buf) < HEADER_SIZE + payload_len THEN None
             ELSE Some([sensor_id |-> from_le_bytes(SubSeq(buf, 1, 4)),
                        timestamp_us |-> from_le_bytes(SubSeq(buf, 5, 12)),
                        data_type |-> buf[13],
                        seq |-> from_le_bytes(SubSeq(buf, 21, 28)),
                        payload |-> SubSeq(buf, HEADER_SIZE + 1, HEADER_SIZE + payload_len)])

\* SensorPacket::parse
sensor_parse(buf) == from_binary(buf)

\* the addresses of the sensor clients and the sensor ids they use
SensorAddrs == {"P", "Q"}
SensorIds == {7, 9}

\* the sensor datagrams that may arrive: sensor 7 from two addresses, sensor 9
\* with audio, a datagram shorter than the header, and one whose payload is
\* shorter than its header says
SensorInputs ==
    { Datagram("P", sensor_datagram(7, 0, DATA_TYPE_SENSOR_VECTOR, 1, 2, <<3, 4>>)),
      Datagram("Q", sensor_datagram(7, 0, DATA_TYPE_SENSOR_VECTOR, 2, 0, <<>>)),
      Datagram("Q", sensor_datagram(9, 0, DATA_TYPE_AUDIO, 1, 1, <<5, 6>>)),
      Datagram("P", <<7, 0, 0, 0>>),
      Datagram("P", sensor_datagram(9, 0, DATA_TYPE_AUDIO, 2, 3, <<5, 6>>)) }

\* the sensor datagrams that may arrive while the response handler is watched:
\* sensor 7 from two addresses
ReplyInputs ==
    { Datagram("P", sensor_datagram(7, 0, DATA_TYPE_SENSOR_VECTOR, 1, 2, <<3, 4>>)),
      Datagram("Q", sensor_datagram(7, 0, DATA_TYPE_SENSOR_VECTOR, 2, 0, <<>>)) }

SensorArrivals ==
    CASE env = "sensor" -> IF s_in < MaxSensorInputs THEN SensorInputs ELSE {}
      [] env = "reply" -> IF s_in < MaxReplyInputs THEN ReplyInputs ELSE {}
      [] OTHER -> {}

\* the VadResults the processors may produce
ResultKinds == {"Audio", "Emotional"}

NoSensorDatagram == [n |-> 0, src |-> "none", packet |-> None]
NoResult == [sensor_id |-> 0, seq |-> 0, kind |-> "none", res |-> 0]

\* the sensor port after spawn_udp_receivers: an empty client map, the
\* receivers and the response handler waiting
SensorInit ==
    /\ client_map = [id \in SensorIds |-> None]
    /\ s_pc = [t \in Tasks |-> "recv"]
    /\ s_cur = [t \in Tasks |-> NoSensorDatagram]
    /\ s_in = 0
    /\ vad_rx = <<>>
    /\ n_res = 0
    /\ rs_pc = "recv"
    /\ rs_cur = NoResult
    /\ rs_dst = None
    /\ resp_sent = <<>>
    /\ recorded = [id \in SensorIds |-> <<>>]
\* the longest PCM input, in bytes, of the lengths tried one by one in
\* specification SpecResample
MaxPcmBytes == 32

\* the calls of resample tried: every length up to MaxPcmBytes and the lengths
\* of 700 and 1050 samples, in both directions
ResampleCalls ==
    { [pcm |-> PcmOf(n), from_rate |-> r[1], to_rate |-> r[2]] :
        n \in (0..MaxPcmBytes) \cup {1400, 2100},
        r \in {<<16000, 24000>>, <<24000, 16000>>} }

NoCall == [pcm |-> <<>>, from_rate |-> 16000, to_rate |-> 24000]

\* in specification SpecResample a call is chosen; elsewhere there is none
ResampleInit(e) ==
    /\ \/ e = "resample" /\ res_call \in ResampleCalls
       \/ e # "resample" /\ res_call = NoCall
    /\ res_ret = None

\* the VAD processor workers (proc_threads of them)
Workers == {1, 2}

\* the workers as main spawns them, the queue open, the smoother empty
ProcInit ==
    /\ vad_closed = FALSE
    /\ rx_guard = 0
    /\ wk_pc = [w \in Workers |-> "lock"]
    /\ wk_pkt = [w \in Workers |-> None]
    /\ taken = <<>>
    /\ smoother = [id \in {} |-> 0]

\* the bridge as spawn_openai_session leaves it: connected, both tasks running
LifeInit ==
    /\ upstream_lost = FALSE
    /\ reader_exited = FALSE
    /\ writer_exited = FALSE

NoEvent == [type |-> "none", delta |-> <<>>, id |-> 0]
NoTaskLocals == [should_forward |-> FALSE, openai_tx |-> FALSE]

InitStateAt(e, oai, seq) ==
    /\ env = e
    /\ persistent_oai = oai
    /\ n_in = 0
    /\ parse_errors = 0
    /\ sessions = [a \in {} |-> a]
    /\ pc = [t \in Tasks |-> "recv"]
    /\ cur = [t \in Tasks |-> NoDatagram]
    /\ session_data = [t \in Tasks |-> None]
    /\ fwd_tx = [t \in Tasks |-> NoTaskLocals]
    /\ sent = [t \in Tasks |-> <<>>]
    /\ active_esp = None
    /\ audio_q = <<>>
    /\ ctrl_q = <<>>
    /\ r_pc = "next"
    /\ r_ev = NoEvent
    /\ r_esp = None
    /\ r_chunks = <<>>
    /\ out_seq = seq
    /\ r_sent = <<>>
    /\ wav_files = <<>>
    /\ win = [a \in Addrs |-> 0]
    /\ window = [a \in Addrs |-> <<>>]
    /\ applied = [a \in Addrs |-> <<>>]
    /\ closed_win = [t \in Tasks |-> 0]
    /\ rec_win = [t \in Tasks |-> 0]
    /\ SensorInit
    /\ PersonaInit
    /\ down_log = <<>>
    /\ LifeInit
    /\ ResampleInit(env)
    /\ ProcInit
    /\ ws_out = <<>>
    /\ vad_q = <<>>
    /\ channel_drops = 0

InitState(e, oai) == InitStateAt(e, oai, 0)

Init == \E oai \in BOOLEAN : InitState("main", oai)

(***************************************************************************)
(* Audio receiver tasks: esp_audio_recv_loop and handle_esp_control        *)
(* (transport_udp.rs).                                                     *)
(***************************************************************************)
Frame(to, bytes) == [to |-> to, bytes |-> bytes]
Src(t) == cur[t].src
Pkt(t) == Unwrap(cur[t].pkt)

\* the entry of the session map for address a, with entry e stored under a
PutEntry(map, a, e) == [x \in (DOMAIN map) \cup {a} |-> IF x = a THEN e ELSE map[x]]

\* where a task goes after a parsed packet: the match on pkt_type and on cmd
Dispatch(pkt) ==
    CASE pkt.pkt_type = PKT_CONTROL ->
            LET cmd == control_cmd(pkt)
            IN  IF cmd = Some(CTRL_SESSION_START)
                THEN (IF persistent_oai THEN "start_set_active" ELSE "start_lock")
                ELSE IF cmd = Some(CTRL_SESSION_END) THEN "end_lock"
                ELSE IF cmd = Some(CTRL_CANCEL) THEN "cancel_lock"
                ELSE "recv"
      [] pkt.pkt_type = PKT_AUDIO_UP -> "audio_lock"
      [] OTHER -> "recv"

\* the reply the receive loop itself sends: the heartbeat mirror
LoopReply(src, pkt) ==
    IF pkt.pkt_type = PKT_HEARTBEAT THEN <<Frame(src, build_heartbeat(pkt.seq_num))>> ELSE <<>>

\* recv_from, parse and the match on the packet type.  The tasks are alike: of
\* those waiting in recv_from the lowest-numbered one is taken to get the datagram.
Recv(t) ==
    /\ pc[t] = "recv"
    /\ \A u \in Tasks : u < t => pc[u] # "recv"
    /\ \E d \in Arrivals :
         LET p == parse(d.buf)
         IN  /\ n_in' = n_in + 1
             /\ cur' = [cur EXCEPT ![t] = [id |-> n_in + 1, src |-> d.src, pkt |-> p,
                                                buf |-> d.buf]]
             /\ session_data' = [session_data EXCEPT ![t] = None]
             /\ fwd_tx' = [fwd_tx EXCEPT ![t] = NoTaskLocals]
             /\ closed_win' = [closed_win EXCEPT ![t] = 0]
             /\ rec_win' = [rec_win EXCEPT ![t] = 0]
             /\ IF p = None
                THEN /\ parse_errors' = parse_errors + 1
                     /\ sent' = [sent EXCEPT ![t] = <<>>]
                     /\ pc' = [pc EXCEPT ![t] = "recv"]
                ELSE /\ parse_errors' = parse_errors
                     /\ sent' = [sent EXCEPT ![t] = LoopReply(d.src, Unwrap(p))]
                     /\ pc' = [pc EXCEPT ![t] = Dispatch(Unwrap(p))]
    /\ UNCHANGED <<env, persistent_oai, sessions, active_esp, bridge_q, reader_vars,
                   wav_files, ws_out, vad_vars, win, window, applied, others>>

\* ---- SESSION_START ------------------------------------------------------
\* oai.set_active_esp(src)
StartSetActive(t) ==
    /\ pc[t] = "start_set_active"
    /\ active_esp' = Some(Src(t))
    /\ pc' = [pc EXCEPT ![t] = "start_clear"]
    /\ UNCHANGED <<env, persistent_oai, n_in, parse_errors, sessions, cur, session_data,
                   fwd_tx, sent, bridge_q, reader_vars, wav_files, ws_out, vad_vars, history, others>>

\* how many control events have been issued to the bridge so far
CtrlIssued == Len(ctrl_q) + Cardinality({i \in 1..Len(ws_out) : ws_out[i].n > 0})

\* a control event: its JSON type; the datagram and window it was issued for and
\* its issue number n go along for the record
ControlEvent(type, t) ==
    [type |-> type, id |-> cur[t].id, src |-> Src(t), win |-> closed_win[t],
     n |-> CtrlIssued + 1, after |-> CtrlIssued, audio |-> <<>>]

\* control_tx.send(..).await: waits while the queue is full; returns an error
\* at once when the writer has dropped the receiving end
control_ready == writer_exited \/ Len(ctrl_q) < CONTROL_CHANNEL_CAP
control_send(q, ev) == IF writer_exited THEN q ELSE Append(q, ev)

\* oai.clear_input_buffer()
StartClear(t) ==
    /\ pc[t] = "start_clear"
    /\ control_ready
    /\ ctrl_q' = control_send(ctrl_q, ControlEvent("input_audio_buffer.clear", t))
    /\ pc' = [pc EXCEPT ![t] = "start_lock"]
    /\ UNCHANGED <<env, persistent_oai, n_in, parse_errors, sessions, cur, session_data,
                   fwd_tx, sent, active_esp, audio_q, reader_vars, wav_files, ws_out, vad_vars, history, others>>

\* the entry a new address gets in SESSION_START
NewEntry == [session |-> EspSession_new, openai_tx |-> FALSE]

\* a SESSION_START that opens the window over what the session already holds
session_start_keep(entry, openai_tx) ==
    [session |-> [entry.session EXCEPT !.state = "Receiving"], openai_tx |-> openai_tx]

\* a SESSION_START that clears the session and forgets to open the window
session_start_idle(entry, openai_tx) ==
    [session |-> reset(entry.session), openai_tx |-> openai_tx]

\* the session-map critical section of SESSION_START
session_start(entry, openai_tx) ==
    [session |-> [reset(entry.session) EXCEPT !.state = "Receiving"],
     openai_tx |-> openai_tx]

StartLock(t) ==
    /\ pc[t] = "start_lock"
    /\ LET a == Src(t)
           entry == IF a \in DOMAIN sessions THEN sessions[a] ELSE NewEntry
       IN  /\ sessions' = PutEntry(sessions, a, session_start(entry, persistent_oai))
           /\ sent' = [sent EXCEPT ![t] =
                          <<Frame(a, build_control(Pkt(t).seq_num, CTRL_SERVER_READY, 0))>>]
           /\ win' = [win EXCEPT ![a] = @ + 1]
           /\ window' = [window EXCEPT ![a] = <<>>]
           /\ applied' = [applied EXCEPT ![a] = Append(@, cur[t].id)]
    /\ pc' = [pc EXCEPT ![t] = "recv"]
    /\ UNCHANGED <<env, persistent_oai, n_in, parse_errors, cur, session_data, fwd_tx,
                   active_esp, bridge_q, reader_vars, wav_files, ws_out, vad_vars, closed_win,
                   rec_win, others>>

\* ---- SESSION_END (the control command, or an AudioUp with the END flag) --
Ack(t) == Frame(Src(t), build_control(Pkt(t).seq_num, CTRL_ACK, 0))

\* a SESSION_END that takes the snapshot and leaves the session Receiving
session_end_take_open(entry) ==
    IF entry.session.state = "Receiving"
    THEN [session |-> entry.session, openai_tx |-> FALSE]
    ELSE entry

\* the first critical section of SESSION_END: what becomes of the entry
session_end_take(entry) ==
    IF entry.session.state = "Receiving"
    THEN [session |-> [entry.session EXCEPT !.state = "Processing"], openai_tx |-> FALSE]
    ELSE entry

\* ... and the snapshot it returns
session_end_data(entry) ==
    IF entry.session.state = "Receiving"
    THEN Some([audio_buf |-> entry.session.audio_buffer,
               pkts |-> entry.session.audio_packets,
               bytes |-> entry.session.audio_bytes,
               lost |-> entry.session.packets_lost])
    ELSE None

EndLock(t) ==
    /\ pc[t] = "end_lock"
    /\ LET a == Src(t)
           known == a \in DOMAIN sessions
           data == IF known THEN session_end_data(sessions[a]) ELSE None
       IN  /\ sessions' = IF known THEN [sessions EXCEPT ![a] = session_end_take(@)]
                          ELSE sessions
           /\ session_data' = [session_data EXCEPT ![t] = data]
           /\ closed_win' = [closed_win EXCEPT ![t] = IF IsSome(data) THEN win[a] ELSE 0]
           /\ window' = IF IsSome(data) THEN [window EXCEPT ![a] = <<>>] ELSE window
           /\ applied' = IF Pkt(t).pkt_type = PKT_CONTROL
                         THEN [applied EXCEPT ![a] = Append(@, cur[t].id)]
                         ELSE applied
           /\ IF persistent_oai
              THEN /\ pc' = [pc EXCEPT ![t] = "end_commit"]
                   /\ sent' = sent
              ELSE IF IsSome(data)
              THEN /\ pc' = [pc EXCEPT ![t] = "end_reset"]
                   /\ sent' = sent
              ELSE /\ pc' = [pc EXCEPT ![t] = "recv"]
                   /\ sent' = [sent EXCEPT ![t] = Append(@, Ack(t))]
    /\ UNCHANGED <<env, persistent_oai, n_in, parse_errors, cur, fwd_tx, active_esp,
                   bridge_q, reader_vars, wav_files, ws_out, vad_vars, win, rec_win, others>>

\* a SESSION_END that clears the active-device cell
active_after_end_clear(cell) == None

\* the active-device cell after SESSION_END: the handler does not clear it
active_after_end(cell) == cell

\* oai.commit_input_buffer()
EndCommit(t) ==
    /\ pc[t] = "end_commit"
    /\ control_ready
    /\ ctrl_q' = control_send(ctrl_q, ControlEvent("input_audio_buffer.commit", t))
    /\ active_esp' = active_after_end(active_esp)
    /\ IF IsSome(session_data[t])
       THEN /\ pc' = [pc EXCEPT ![t] = "end_reset"]
            /\ sent' = sent
       ELSE /\ pc' = [pc EXCEPT ![t] = "recv"]
            /\ sent' = [sent EXCEPT ![t] = Append(@, Ack(t))]
    /\ UNCHANGED <<env, persistent_oai, n_in, parse_errors, sessions, cur, session_data,
                   fwd_tx, audio_q, reader_vars, wav_files, ws_out, vad_vars, history, others>>

\* a WAV whose data length is the RIFF chunk size
save_session_wav_riff(src, pcm_data) ==
    [src |-> src, data_len |-> 36 + Len(pcm_data), pcm |-> pcm_data]

\* save_session_wav: the data sub-chunk of the file written
save_session_wav(src, pcm_data) == [src |-> src, data_len |-> Len(pcm_data), pcm |-> pcm_data]

\* the WAV files after the handler's "if !audio_buf.is_empty()" write
wav_after(files, id, w, src, audio_buf) ==
    IF audio_buf # <<>>
    THEN Append(files, [id |-> id, win |-> w, file |-> save_session_wav(src, audio_buf)])
    ELSE files

\* the second critical section of SESSION_END
session_end_reset(entry) == [session |-> reset(entry.session), openai_tx |-> FALSE]

\* the WAV write, the ACK and the reset to idle
EndReset(t) ==
    /\ pc[t] = "end_reset"
    /\ LET a == Src(t)
           sd == Unwrap(session_data[t])
       IN  /\ wav_files' = wav_after(wav_files, cur[t].id, closed_win[t], a, sd.audio_buf)
           /\ sent' = [sent EXCEPT ![t] = Append(@, Ack(t))]
           /\ sessions' = IF a \in DOMAIN sessions
                          THEN [sessions EXCEPT ![a] = session_end_reset(@)]
                          ELSE sessions
           /\ window' = [window EXCEPT ![a] = <<>>]
    /\ pc' = [pc EXCEPT ![t] = "recv"]
    /\ UNCHANGED <<env, persistent_oai, n_in, parse_errors, cur, session_data, fwd_tx,
                   active_esp, bridge_q, reader_vars, ws_out, vad_vars, win, applied, closed_win,
                   rec_win, others>>

\* ---- CANCEL --------------------------------------------------------------
\* a CANCEL that keeps the bridge sender of the entry
session_cancel_keep_tx(entry) ==
    [session |-> reset(entry.session), openai_tx |-> entry.openai_tx]

\* the critical section of CANCEL
session_cancel(entry) == [session |-> reset(entry.session), openai_tx |-> FALSE]

CancelLock(t) ==
    /\ pc[t] = "cancel_lock"
    /\ LET a == Src(t)
       IN  /\ sessions' = IF a \in DOMAIN sessions
                          THEN [sessions EXCEPT ![a] = session_cancel(@)]
                          ELSE sessions
           /\ window' = [window EXCEPT ![a] = <<>>]
           /\ applied' = [applied EXCEPT ![a] = Append(@, cur[t].id)]
    /\ IF persistent_oai
       THEN /\ pc' = [pc EXCEPT ![t] = "cancel_clear_active"]
            /\ sent' = sent
       ELSE /\ pc' = [pc EXCEPT ![t] = "recv"]
            /\ sent' = [sent EXCEPT ![t] = Append(@, Ack(t))]
    /\ UNCHANGED <<env, persistent_oai, n_in, parse_errors, cur, session_data, fwd_tx,
                   active_esp, bridge_q, reader_vars, wav_files, ws_out, vad_vars, win, closed_win,
                   rec_win, others>>

\* oai.clear_active_esp()
CancelClearActive(t) ==
    /\ pc[t] = "cancel_clear_active"
    /\ active_esp' = None
    /\ pc' = [pc EXCEPT ![t] = "cancel_clear_input"]
    /\ UNCHANGED <<env, persistent_oai, n_in, parse_errors, sessions, cur, session_data,
                   fwd_tx, sent, bridge_q, reader_vars, wav_files, ws_out, vad_vars, history, others>>

\* oai.clear_input_buffer(), then the ACK
CancelClearInput(t) ==
    /\ pc[t] = "cancel_clear_input"
    /\ control_ready
    /\ ctrl_q' = control_send(ctrl_q, ControlEvent("input_audio_buffer.clear", t))
    /\ sent' = [sent EXCEPT ![t] = Append(@, Ack(t))]
    /\ pc' = [pc EXCEPT ![t] = "recv"]
    /\ UNCHANGED <<env, persistent_oai, n_in, parse_errors, sessions, cur, session_data,
                   fwd_tx, active_esp, audio_q, reader_vars, wav_files, ws_out, vad_vars, history, others>>

\* ---- AudioUp --------------------------------------------------------------
\* the entry or_insert_with creates on a first audio packet
AutoEntry ==
    [session |-> [EspSession_new EXCEPT !.state = "Receiving"], openai_tx |-> FALSE]

\* an AudioUp that records without looking at the session state
audio_up_any_state(entry, seq, payload) ==
    [entry EXCEPT !.session = record_audio(entry.session, seq, payload)]

\* the critical section of AudioUp: what becomes of the entry
audio_up(entry, seq, payload) ==
    IF entry.session.state = "Receiving"
    THEN [entry EXCEPT !.session = record_audio(entry.session, seq, payload)]
    ELSE entry

\* an AudioUp that is forwarded whatever the session state
audio_up_forward_any_state(entry) ==
    [should_forward |-> TRUE, openai_tx |-> entry.openai_tx]

\* ... and the (should_forward, openai_tx) pair it returns
audio_up_forward(entry) ==
    IF entry.session.state = "Receiving"
    THEN [should_forward |-> TRUE, openai_tx |-> entry.openai_tx]
    ELSE [should_forward |-> FALSE, openai_tx |-> FALSE]

\* after the forwarding block: "if pkt.is_end()"
AfterAudio(pkt) == IF is_end(pkt) THEN "end_lock" ELSE "recv"

AudioLock(t) ==
    /\ pc[t] = "audio_lock"
    /\ LET a == Src(t)
           pkt == Pkt(t)
           known == a \in DOMAIN sessions
           entry == IF known THEN sessions[a] ELSE AutoEntry
           fwd == audio_up_forward(entry)
       IN  /\ sessions' = PutEntry(sessions, a, audio_up(entry, pkt.seq_num, pkt.payload))
           /\ fwd_tx' = [fwd_tx EXCEPT ![t] = fwd]
           /\ pc' = [pc EXCEPT ![t] =
                        IF fwd.should_forward /\ pkt.payload # <<>>
                        THEN "audio_vad" ELSE AfterAudio(pkt)]
           /\ win' = IF known THEN win ELSE [win EXCEPT ![a] = @ + 1]
           /\ window' = IF fwd.should_forward
                        THEN [window EXCEPT ![a] = Append(@, pkt.payload)]
                        ELSE window
           /\ applied' = [applied EXCEPT ![a] = Append(@, cur[t].id)]
           /\ rec_win' = [rec_win EXCEPT ![t] = IF fwd.should_forward THEN win'[a] ELSE 0]
    /\ UNCHANGED <<env, persistent_oai, n_in, parse_errors, cur, session_data, sent,
                   active_esp, bridge_q, reader_vars, wav_files, ws_out, vad_vars, closed_win, others>>

\* the sensor id of a device: the low 32 bits of the hash of its address
esp_sensor_id(src) == IF src = "A" THEN 1001 ELSE 1002

\* the SensorPacket an AudioUp payload travels in (the timestamp is left out)
esp_audio_to_sensor_packet(src, seq_num, payload) ==
    [sensor_id |-> esp_sensor_id(src), data_type |-> DATA_TYPE_AUDIO, seq |-> seq_num,
     payload |-> payload]

\* mpsc::Sender::try_send(..).is_err()
try_send_is_err(q, cap) == Len(q) >= cap

\* stats.record_channel_drop() after a failed try_send
\* stats.record_channel_drop() left out
drops_never(drops, q, cap) == drops

drops_after(drops, q, cap) == IF try_send_is_err(q, cap) THEN drops + 1 ELSE drops

\* mpsc::Sender::try_send: the queue afterwards (unchanged when it is full)
try_send(q, cap, item) == IF Len(q) < cap THEN Append(q, item) ELSE q

\* the chunk put into the audio queue: the payload; the datagram and window it
\* comes from and the number of control events issued before it go along
AudioChunk(t) ==
    [pcm |-> Pkt(t).payload, id |-> cur[t].id, src |-> Src(t), win |-> rec_win[t],
     after |-> CtrlIssued]

\* the input_audio_buffer.append event the writer makes of a chunk
AppendEvent(chunk) ==
    [type |-> "input_audio_buffer.append", id |-> chunk.id, src |-> chunk.src,
     win |-> chunk.win, n |-> 0, after |-> chunk.after,
     audio |-> resample_16k_to_24k(chunk.pcm)]

\* tx.try_send(sensor_pkt): the payload goes to the VAD processors
AudioVad(t) ==
    /\ pc[t] = "audio_vad"
    /\ vad_q' = try_send(vad_q, ChannelCapacity,
                         esp_audio_to_sensor_packet(Src(t), Pkt(t).seq_num, Pkt(t).payload))
    /\ channel_drops' = drops_after(channel_drops, vad_q, ChannelCapacity)
    /\ pc' = [pc EXCEPT ![t] = IF fwd_tx[t].openai_tx THEN "audio_fwd"
                                ELSE AfterAudio(Pkt(t))]
    /\ UNCHANGED <<env, persistent_oai, n_in, parse_errors, sessions, cur, session_data,
                   fwd_tx, sent, active_esp, bridge_q, reader_vars, wav_files, ws_out,
                   history, others>>

\* oai_tx.try_send(pkt.payload.clone())
AudioFwd(t) ==
    /\ pc[t] = "audio_fwd"
    /\ audio_q' = IF writer_exited THEN audio_q
                  ELSE try_send(audio_q, AUDIO_CHANNEL_CAP, AudioChunk(t))
    /\ pc' = [pc EXCEPT ![t] = AfterAudio(Pkt(t))]
    /\ UNCHANGED <<env, persistent_oai, n_in, parse_errors, sessions, cur, session_data,
                   fwd_tx, sent, active_esp, ctrl_q, reader_vars, wav_files, ws_out, vad_vars, history, others>>

(***************************************************************************)
(* The bridge (transport_openai.rs): the writer task drains the two queues *)
(* into the WebSocket, control events first; the reader task turns         *)
(* upstream events into frames for the active device.                      *)
(***************************************************************************)
\* a select! that polls the audio queue first
writer_select_audio_first(cq, aq) ==
    IF aq # <<>> THEN "audio" ELSE IF cq # <<>> THEN "control" ELSE "none"

\* the branch select!{ biased; .. } takes: the branches are polled in the order
\* written, the control queue first
writer_select(cq, aq) ==
    IF cq # <<>> THEN "control" ELSE IF aq # <<>> THEN "audio" ELSE "none"

\* select!{ biased; ws_msg_rx.recv() => .. }
\* a ws_sink.send that fails (the connection is lost) ends the writer's loop,
\* and the task drops both receiving ends with what they hold
WriteControl ==
    /\ ~writer_exited
    /\ writer_select(ctrl_q, audio_q) = "control"
    /\ ctrl_q' = IF upstream_lost THEN <<>> ELSE Tail(ctrl_q)
    /\ audio_q' = IF upstream_lost THEN <<>> ELSE audio_q
    /\ ws_out' = IF upstream_lost THEN ws_out ELSE Append(ws_out, Head(ctrl_q))
    /\ writer_exited' = upstream_lost
    /\ UNCHANGED <<env, persistent_oai, n_in, parse_errors, sessions, task_vars,
                   active_esp, reader_vars, wav_files, vad_vars, history, sensor_vars,
                   persona_vars, down_log, upstream_lost, reader_exited, resample_vars, proc_vars>>

\* select!{ biased; .. audio_rx.recv() => .. }: taken when no control event waits
WriteAudio ==
    /\ ~writer_exited
    /\ writer_select(ctrl_q, audio_q) = "audio"
    /\ audio_q' = IF upstream_lost THEN <<>> ELSE Tail(audio_q)
    /\ ws_out' = IF upstream_lost THEN ws_out ELSE Append(ws_out, AppendEvent(Head(audio_q)))
    /\ writer_exited' = upstream_lost
    /\ UNCHANGED <<env, persistent_oai, n_in, parse_errors, sessions, task_vars,
                   active_esp, ctrl_q, reader_vars, wav_files, vad_vars, history, sensor_vars,
                   persona_vars, down_log, upstream_lost, reader_exited, resample_vars, proc_vars>>

\* the fragments of the delta as it came, at 24 kHz
delta_chunks_raw(current_esp, pcm_24k) ==
    IF IsSome(current_esp) THEN chunks(pcm_24k, ESP_MAX_PAYLOAD) ELSE <<>>

\* the fragments the reader sends for a delta: none without an active device
delta_chunks(current_esp, pcm_24k) ==
    IF IsSome(current_esp) THEN chunks(resample_24k_to_16k(pcm_24k), ESP_MAX_PAYLOAD) ELSE <<>>

\* a response.audio.done that takes a sequence number whether or not it sends
stream_end_seq_always(current_esp, seq) == wrapping_add(seq, 1)

\* out_seq after a response.audio.done: the Control(StreamEnd) takes a number
\* only inside "if let Some(esp_addr) = current_esp"
stream_end_seq(current_esp, seq) ==
    IF IsSome(current_esp) THEN wrapping_add(seq, 1) ELSE seq

\* ws_reader.next(): one upstream event, up to the read of the active-device cell
ReaderEvent ==
    /\ r_pc = "next"
    /\ ~upstream_lost
    /\ \E ev \in Events :
         LET current_esp == active_esp
         IN  /\ n_in' = n_in + 1
             /\ r_ev' = [type |-> ev.type, delta |-> ev.delta, id |-> n_in + 1]
             /\ r_esp' = current_esp
             /\ IF ev.type = "response.audio.delta"
                THEN /\ r_chunks' = delta_chunks(current_esp, ev.delta)
                     /\ r_sent' = <<>>
                     /\ out_seq' = out_seq
                     /\ r_pc' = IF r_chunks' # <<>> THEN "send" ELSE "next"
                ELSE /\ r_chunks' = <<>>
                     /\ r_sent' = IF IsSome(current_esp)
                                  THEN <<Frame(Unwrap(current_esp),
                                               build_control(out_seq, CTRL_STREAM_END, 0))>>
                                  ELSE <<>>
                     /\ out_seq' = stream_end_seq(current_esp, out_seq)
                     /\ r_pc' = "next"
             /\ down_log' = down_log \o [i \in 1..Len(r_sent') |->
                                            [ev |-> n_in + 1, frame |-> r_sent'[i]]]
    /\ UNCHANGED <<env, persistent_oai, parse_errors, sessions, task_vars, active_esp,
                   bridge_q, wav_files, ws_out, vad_vars, history, sensor_vars, persona_vars,
                   life_vars, resample_vars, proc_vars>>

\* fragments that follow the active-device cell as it is when each is sent
chunk_dest_cell(current_esp, cell) == IF IsSome(cell) THEN Unwrap(cell) ELSE Unwrap(current_esp)

\* the address a fragment goes to: the one read when the delta arrived
chunk_dest(current_esp, cell) == Unwrap(current_esp)

\* one turn of "for chunk in pcm_16k.chunks(ESP_MAX_PAYLOAD)"
ReaderSend ==
    /\ r_pc = "send"
    /\ r_sent' = Append(r_sent, Frame(chunk_dest(r_esp, active_esp),
                                       build_audio_down(out_seq, 0, Head(r_chunks))))
    /\ out_seq' = wrapping_add(out_seq, 1)
    /\ r_chunks' = Tail(r_chunks)
    /\ r_pc' = IF Tail(r_chunks) = <<>> THEN "next" ELSE "send"
    /\ down_log' = Append(down_log, [ev |-> r_ev.id, frame |-> r_sent'[Len(r_sent')]])
    /\ UNCHANGED <<env, persistent_oai, n_in, parse_errors, sessions, task_vars,
                   active_esp, bridge_q, r_ev, r_esp, wav_files, ws_out, vad_vars, history,
                   sensor_vars, persona_vars, life_vars,
                   resample_vars, proc_vars>>

\* the connection is lost: from now on ws_reader.next() gives a read error or
\* the peer's close frame, and ws_sink.send fails
UpstreamLost ==
    /\ env = "lost"
    /\ ~upstream_lost
    /\ upstream_lost' = TRUE
    /\ UNCHANGED <<env, persistent_oai, n_in, parse_errors, sessions, task_vars, active_esp,
                   bridge_q, reader_vars, wav_files, ws_out, vad_vars, history, sensor_vars,
                   persona_vars, down_log, reader_exited, writer_exited,
                   resample_vars, proc_vars>>

\* ws_reader.next() gives Err(e) or Message::Close: break, and the task ends
ReaderExit ==
    /\ r_pc = "next"
    /\ upstream_lost
    /\ ~reader_exited
    /\ reader_exited' = TRUE
    /\ r_pc' = "exit"
    /\ UNCHANGED <<env, persistent_oai, n_in, parse_errors, sessions, task_vars, active_esp,
                   bridge_q, r_ev, r_esp, r_chunks, out_seq, r_sent, wav_files, ws_out,
                   vad_vars, history, sensor_vars, persona_vars, down_log, upstream_lost,
                   writer_exited, resample_vars, proc_vars>>

(***************************************************************************)
(* Specifications.                                                         *)
(***************************************************************************)
\* the steps of the audio receiver tasks
TaskStep ==
    \/ \E t \in Tasks : Recv(t)
    \/ \E t \in Tasks : StartLock(t)
    \/ \E t \in Tasks : EndLock(t)
    \/ \E t \in Tasks : EndReset(t)
    \/ \E t \in Tasks : CancelLock(t)
    \/ \E t \in Tasks : AudioLock(t)

\* their steps on the bridge, and the writer task
BridgeStep ==
    \/ \E t \in Tasks : StartSetActive(t)
    \/ \E t \in Tasks : StartClear(t)
    \/ \E t \in Tasks : EndCommit(t)
    \/ \E t \in Tasks : CancelClearActive(t)
    \/ \E t \in Tasks : CancelClearInput(t)
    \/ WriteControl

\* one device, every kind of datagram, with and without the bridge
Next ==
    \/ TaskStep
    \/ BridgeStep
    \/ \E t \in Tasks : AudioVad(t)
    \/ \E t \in Tasks : AudioFwd(t)
    \/ WriteAudio

Spec == Init /\ [][Next]_vars

\* two devices and the upstream events: reply routing
InitRoute == InitState("route", TRUE)

NextRoute ==
    \/ Next
    \/ ReaderEvent
    \/ ReaderSend

SpecRoute == InitRoute /\ [][NextRoute]_vars

\* one device without the bridge, audio datagrams with sequence numbers around
\* the wrap: the loss counter
InitLoss == InitState("loss", FALSE)

NextLoss ==
    \/ \E t \in Tasks : Recv(t)
    \/ \E t \in Tasks : StartLock(t)
    \/ \E t \in Tasks : AudioLock(t)
    \/ \E t \in Tasks : AudioVad(t)

SpecLoss == InitLoss /\ [][NextLoss]_vars

\* the full turn: SessionStart, AudioUp 10, 11, 13 of 700 bytes, SessionEnd
InitTurn == \E oai \in BOOLEAN : InitState("turn", oai)

NextTurn ==
    \/ \E t \in Tasks : Recv(t)
    \/ \E t \in Tasks : StartSetActive(t)
    \/ \E t \in Tasks : StartClear(t)
    \/ \E t \in Tasks : StartLock(t)
    \/ \E t \in Tasks : AudioLock(t)
    \/ \E t \in Tasks : AudioVad(t)
    \/ \E t \in Tasks : AudioFwd(t)
    \/ \E t \in Tasks : EndLock(t)
    \/ \E t \in Tasks : EndCommit(t)
    \/ \E t \in Tasks : EndReset(t)
    \/ WriteControl
    \/ WriteAudio

SpecTurn == InitTurn /\ [][NextTurn]_vars

\* reply audio: a device that starts sessions and the upstream events
InitDelta == InitState("delta", TRUE)

NextDelta ==
    \/ \E t \in Tasks : Recv(t)
    \/ \E t \in Tasks : StartSetActive(t)
    \/ \E t \in Tasks : StartClear(t)
    \/ \E t \in Tasks : StartLock(t)
    \/ WriteControl
    \/ ReaderEvent
    \/ ReaderSend

SpecDelta == InitDelta /\ [][NextDelta]_vars

\* the state after device A's SessionStart, datagram 1, was handled by task 1
\* and the writer wrote its clear event, with the reader's sequence counter at seq
StartedAt(e, seq) ==
    LET start == Datagram("A", build_control(1, CTRL_SESSION_START, FLAG_START))
    IN  /\ env = e
        /\ persistent_oai = TRUE
        /\ n_in = 1
        /\ parse_errors = 0
        /\ sessions = [a \in {"A"} |-> session_start(NewEntry, TRUE)]
        /\ pc = [t \in Tasks |-> "recv"]
        /\ cur = [t \in Tasks |-> IF t = 1 THEN [id |-> 1, src |-> "A", pkt |-> parse(start.buf),
                                                 buf |-> start.buf]
                                  ELSE NoDatagram]
        /\ session_data = [t \in Tasks |-> None]
        /\ fwd_tx = [t \in Tasks |-> NoTaskLocals]
        /\ sent = [t \in Tasks |->
                     IF t = 1 THEN <<Frame("A", build_control(1, CTRL_SERVER_READY, 0))>>
                     ELSE <<>>]
        /\ active_esp = Some("A")
        /\ audio_q = <<>>
        /\ ctrl_q = <<>>
        /\ r_pc = "next"
        /\ r_ev = NoEvent
        /\ r_esp = None
        /\ r_chunks = <<>>
        /\ out_seq = seq
        /\ r_sent = <<>>
        /\ wav_files = <<>>
        /\ ws_out = <<[type |-> "input_audio_buffer.clear", id |-> 1, src |-> "A", win |-> 0,
                       n |-> 1, after |-> 0, audio |-> <<>>]>>
        /\ vad_q = <<>>
        /\ channel_drops = 0
        /\ win = [a \in Addrs |-> IF a = "A" THEN 1 ELSE 0]
        /\ window = [a \in Addrs |-> <<>>]
        /\ applied = [a \in Addrs |-> IF a = "A" THEN <<1>> ELSE <<>>]
        /\ closed_win = [t \in Tasks |-> 0]
        /\ rec_win = [t \in Tasks |-> 0]
        /\ SensorInit
        /\ PersonaInit
        /\ down_log = <<>>
        /\ LifeInit
        /\ ResampleInit(env)
        /\ ProcInit

\* reply audio for a started session; the reader's sequence counter starts
\* fresh or at its last value before the wrap, where it is after 65535 frames
\* (down_log records the frames from here on)
InitFrag == \E seq \in {0, U16 - 1} : StartedAt("frag", seq)

NextFrag ==
    \/ ReaderEvent
    \/ ReaderSend

SpecFrag == InitFrag /\ [][NextFrag]_vars

\* the upstream connection is lost at some time: a device that starts sessions,
\* the upstream events while the connection lasts, and the two bridge tasks
InitLost == InitState("lost", TRUE)

\* what the device and the upstream do
LostEnvStep ==
    \/ \E t \in Tasks : Recv(t)
    \/ ReaderEvent
    \/ UpstreamLost

\* the steps of the receiver tasks and of the two bridge tasks
LostTaskStep ==
    \/ \E t \in Tasks : StartSetActive(t)
    \/ \E t \in Tasks : StartClear(t)
    \/ \E t \in Tasks : StartLock(t)
    \/ WriteControl
    \/ ReaderSend
    \/ ReaderExit

NextLost == LostEnvStep \/ LostTaskStep

\* the runtime schedules every task that can take a step: a receiver task
\* between its awaits, the writer with a message in a queue, the reader with a
\* fragment to send or an error to read; no datagram or upstream event has to
\* arrive
SpecLost ==
    /\ InitLost
    /\ [][NextLost]_vars
    /\ \A t \in Tasks : WF_vars(StartSetActive(t) \/ StartClear(t) \/ StartLock(t))
    /\ WF_vars(WriteControl)
    /\ WF_vars(ReaderSend)
    /\ WF_vars(ReaderExit)

\* resample(pcm, from_rate, to_rate)
Resample ==
    /\ env = "resample"
    /\ res_ret = None
    /\ res_ret' = Some(resample(res_call.pcm, res_call.from_rate, res_call.to_rate))
    /\ UNCHANGED <<env, persistent_oai, n_in, parse_errors, sessions, task_vars, active_esp,
                   bridge_q, reader_vars, wav_files, ws_out, vad_vars, history, sensor_vars,
                   persona_vars, down_log, life_vars, res_call, proc_vars>>

\* the resampler alone
InitResample == InitState("resample", FALSE)

NextResample == Resample

SpecResample == InitResample /\ [][NextResample]_vars

\* well-formed and malformed datagrams, with the bridge
InitFrames == InitState("frames", TRUE)

NextFrames ==
    \/ \E t \in Tasks : Recv(t)
    \/ \E t \in Tasks : StartSetActive(t)
    \/ \E t \in Tasks : StartClear(t)
    \/ \E t \in Tasks : StartLock(t)
    \/ \E t \in Tasks : AudioLock(t)
    \/ \E t \in Tasks : AudioVad(t)
    \/ \E t \in Tasks : AudioFwd(t)
    \/ WriteControl
    \/ WriteAudio

SpecFrames == InitFrames /\ [][NextFrames]_vars

\* the control-event queue about to fill: device A has sent HandledBefore
\* SessionStart datagrams, receiver task 1 has handled them all, and the writer
\* task has not taken any of the input_audio_buffer.clear events yet
InitFull ==
    LET start == Datagram("A", build_control(1, CTRL_SESSION_START, FLAG_START))
        k == HandledBefore
    IN  /\ env = "full"
        /\ persistent_oai = TRUE
        /\ n_in = k
        /\ parse_errors = 0
        /\ sessions = [a \in {"A"} |-> session_start(NewEntry, TRUE)]
        /\ pc = [t \in Tasks |-> "recv"]
        /\ cur = [t \in Tasks |-> IF t = 1 THEN [id |-> k, src |-> "A", pkt |-> parse(start.buf),
                                                 buf |-> start.buf]
                                  ELSE NoDatagram]
        /\ session_data = [t \in Tasks |-> None]
        /\ fwd_tx = [t \in Tasks |-> NoTaskLocals]
        /\ sent = [t \in Tasks |->
                     IF t = 1 THEN <<Frame("A", build_control(1, CTRL_SERVER_READY, 0))>>
                     ELSE <<>>]
        /\ active_esp = Some("A")
        /\ audio_q = <<>>
        /\ ctrl_q = [i \in 1..k |->
                       [type |-> "input_audio_buffer.clear", id |-> i, src |-> "A", win |-> 0,
                        n |-> i, after |-> i - 1, audio |-> <<>>]]
        /\ r_pc = "next"
        /\ r_ev = NoEvent
        /\ r_esp = None
        /\ r_chunks = <<>>
        /\ out_seq = 0
        /\ r_sent = <<>>
        /\ wav_files = <<>>
        /\ ws_out = <<>>
        /\ vad_q = <<>>
        /\ channel_drops = 0
        /\ win = [a \in Addrs |-> IF a = "A" THEN k ELSE 0]
        /\ window = [a \in Addrs |-> <<>>]
        /\ applied = [a \in Addrs |-> IF a = "A" THEN [i \in 1..k |-> i] ELSE <<>>]
        /\ closed_win = [t \in Tasks |-> 0]
        /\ rec_win = [t \in Tasks |-> 0]
        /\ SensorInit
        /\ PersonaInit
        /\ down_log = <<>>
        /\ LifeInit
        /\ ResampleInit(env)
        /\ ProcInit

NextFull ==
    \/ \E t \in Tasks : Recv(t)
    \/ \E t \in Tasks : StartSetActive(t)
    \/ \E t \in Tasks : StartClear(t)
    \/ \E t \in Tasks : StartLock(t)
    \/ \E t \in Tasks : CancelLock(t)
    \/ \E t \in Tasks : CancelClearActive(t)
    \/ \E t \in Tasks : CancelClearInput(t)
    \/ WriteControl

SpecFull == InitFull /\ [][NextFull]_vars

\* a VAD processor worker takes the next SensorPacket off the dispatcher queue
WorkerRecv ==
    /\ vad_q # <<>>
    /\ vad_q' = Tail(vad_q)
    /\ UNCHANGED <<env, persistent_oai, n_in, parse_errors, sessions, pc, cur, session_data,
                   fwd_tx, sent, active_esp, audio_q, ctrl_q, r_pc, r_ev, r_esp, r_chunks,
                   out_seq, r_sent, wav_files, ws_out, channel_drops, history, others>>

\* the audio-chunk queue full: device A has sent a SessionStart and then
\* AUDIO_CHANNEL_CAP AudioUp datagrams of one byte with consecutive sequence
\* numbers, receiver task 1 has handled them all, and the writer task has not
\* taken anything yet; the VAD processors have taken every packet in time
InitAudioFull ==
    LET k == AudioHandledBefore
        chunk(i) == [pcm |-> <<1>>, id |-> i, src |-> "A", win |-> 1, after |-> 1]
    IN  /\ env = "audiofull"
        /\ persistent_oai = TRUE
        /\ n_in = k
        /\ parse_errors = 0
        /\ sessions = [a \in {"A"} |->
                         [session |-> [state |-> "Receiving", out_seq |-> 0,
                                       last_recv_seq |-> k, audio_packets |-> k - 1,
                                       audio_bytes |-> k - 1,
                                       audio_buffer |-> [i \in 1..(k - 1) |-> 1],
                                       packets_lost |-> 0],
                          openai_tx |-> TRUE]]
        /\ pc = [t \in Tasks |-> "recv"]
        /\ cur = [t \in Tasks |-> IF t = 1 THEN [id |-> k, src |-> "A",
                                                 pkt |-> parse(FullAudio(k).buf),
                                                 buf |-> FullAudio(k).buf]
                                  ELSE NoDatagram]
        /\ session_data = [t \in Tasks |-> None]
        /\ fwd_tx = [t \in Tasks |-> IF t = 1 THEN [should_forward |-> TRUE, openai_tx |-> TRUE]
                                     ELSE NoTaskLocals]
        /\ sent = [t \in Tasks |-> <<>>]
        /\ active_esp = Some("A")
        /\ audio_q = [i \in 1..(k - 1) |-> chunk(i + 1)]
        /\ ctrl_q = <<[type |-> "input_audio_buffer.clear", id |-> 1, src |-> "A", win |-> 0,
                       n |-> 1, after |-> 0, audio |-> <<>>]>>
        /\ r_pc = "next"
        /\ r_ev = NoEvent
        /\ r_esp = None
        /\ r_chunks = <<>>
        /\ out_seq = 0
        /\ r_sent = <<>>
        /\ wav_files = <<>>
        /\ ws_out = <<>>
        /\ vad_q = <<>>
        /\ channel_drops = 0
        /\ win = [a \in Addrs |-> IF a = "A" THEN 1 ELSE 0]
        /\ window = [a \in Addrs |-> IF a = "A" THEN [i \in 1..(k - 1) |-> <<1>>] ELSE <<>>]
        /\ applied = [a \in Addrs |-> IF a = "A" THEN [i \in 1..k |-> i] ELSE <<>>]
        /\ closed_win = [t \in Tasks |-> 0]
        /\ rec_win = [t \in Tasks |-> IF t = 1 THEN 1 ELSE 0]
        /\ SensorInit
        /\ PersonaInit
        /\ down_log = <<>>
        /\ LifeInit
        /\ ResampleInit(env)
        /\ ProcInit

NextAudioFull ==
    \/ \E t \in Tasks : Recv(t)
    \/ \E t \in Tasks : AudioLock(t)
    \/ \E t \in Tasks : AudioVad(t)
    \/ \E t \in Tasks : AudioFwd(t)
    \/ WorkerRecv
    \/ WriteControl
    \/ WriteAudio

SpecAudioFull == InitAudioFull /\ [][NextAudioFull]_vars

(***************************************************************************)
(* The sensor port (transport_udp.rs): receivers, the client map and the   *)
(* response handler.                                                       *)
(***************************************************************************)
audio_vars == <<n_in, sessions, pc, cur, session_data, fwd_tx, sent, active_esp, audio_q,
                ctrl_q, r_pc, r_ev, r_esp, r_chunks, out_seq, r_sent, wav_files, ws_out,
                history, down_log, life_vars, resample_vars, proc_vars>>

\* socket.recv_from, stats.record_recv, SensorPacket::parse
SensorRecv(t) ==
    /\ s_pc[t] = "recv"
    /\ \A u \in Tasks : u < t => s_pc[u] # "recv"
    /\ \E d \in SensorArrivals :
         LET p == sensor_parse(d.buf)
         IN  /\ s_in' = s_in + 1
             /\ s_cur' = [s_cur EXCEPT ![t] = [n |-> s_in + 1, src |-> d.src, packet |-> p]]
             /\ IF p = None
                THEN /\ parse_errors' = parse_errors + 1
                     /\ s_pc' = [s_pc EXCEPT ![t] = "recv"]
                ELSE /\ parse_errors' = parse_errors
                     /\ s_pc' = [s_pc EXCEPT ![t] = "insert"]
    /\ UNCHANGED <<env, persistent_oai, audio_vars, vad_vars, client_map, vad_rx, n_res,
                   rs_pc, rs_cur, rs_dst, resp_sent, recorded, persona_vars>>

\* HashMap::insert keeping an address already there
map_insert_keep(map, k, v) == IF IsSome(map[k]) THEN map ELSE [map EXCEPT ![k] = Some(v)]

\* map.insert(packet.sensor_id, src)
map_insert(map, k, v) == [map EXCEPT ![k] = Some(v)]

\* client_map.write().await; map.insert(..)
SensorInsert(t) ==
    /\ s_pc[t] = "insert"
    /\ LET id == Unwrap(s_cur[t].packet).sensor_id
       IN  /\ client_map' = map_insert(client_map, id, s_cur[t].src)
           /\ recorded' = [recorded EXCEPT ![id] = Append(@, [n |-> s_cur[t].n, src |-> s_cur[t].src])]
    /\ s_pc' = [s_pc EXCEPT ![t] = "send"]
    /\ UNCHANGED <<env, persistent_oai, parse_errors, audio_vars, vad_vars, s_cur, s_in,
                   vad_rx, n_res, rs_pc, rs_cur, rs_dst, resp_sent, persona_vars>>

\* tx.try_send(packet), stats.record_channel_drop() when it fails
SensorSend(t) ==
    /\ s_pc[t] = "send"
    /\ vad_q' = try_send(vad_q, ChannelCapacity, Unwrap(s_cur[t].packet))
    /\ channel_drops' = drops_after(channel_drops, vad_q, ChannelCapacity)
    /\ s_pc' = [s_pc EXCEPT ![t] = "recv"]
    /\ UNCHANGED <<env, persistent_oai, parse_errors, audio_vars, client_map, s_cur, s_in,
                   vad_rx, n_res, rs_pc, rs_cur, rs_dst, resp_sent, recorded, persona_vars>>

\* a VadResult arrives on vad_rx
ResultArrives ==
    /\ env = "reply"
    /\ n_res < MaxResults
    /\ \E id \in SensorIds, k \in ResultKinds :
         vad_rx' = Append(vad_rx, [sensor_id |-> id, seq |-> n_res + 1, kind |-> k,
                                   res |-> n_res + 1])
    /\ n_res' = n_res + 1
    /\ UNCHANGED <<env, persistent_oai, parse_errors, audio_vars, vad_vars, client_map, s_pc,
                   s_cur, s_in, rs_pc, rs_cur, rs_dst, resp_sent, recorded, persona_vars>>

\* result.kind != VadKind::Audio, answering every kind
should_respond_all(kind) == TRUE

\* result.kind != VadKind::Audio
should_respond(kind) == kind # "Audio"

\* vad_rx.recv().await and the test of the kind
RespRecv ==
    /\ rs_pc = "recv"
    /\ vad_rx # <<>>
    /\ rs_cur' = Head(vad_rx)
    /\ vad_rx' = Tail(vad_rx)
    /\ rs_dst' = None
    /\ rs_pc' = IF should_respond(Head(vad_rx).kind) THEN "lookup" ELSE "recv"
    /\ UNCHANGED <<env, persistent_oai, parse_errors, audio_vars, vad_vars, client_map, s_pc,
                   s_cur, s_in, n_res, resp_sent, recorded, persona_vars>>

\* client_map.read().await; map.get(&result.sensor_id).copied()
RespLookup ==
    /\ rs_pc = "lookup"
    /\ rs_dst' = client_map[rs_cur.sensor_id]
    /\ rs_pc' = IF IsSome(client_map[rs_cur.sensor_id]) THEN "send" ELSE "recv"
    /\ UNCHANGED <<env, persistent_oai, parse_errors, audio_vars, vad_vars, client_map, s_pc,
                   s_cur, s_in, vad_rx, n_res, rs_cur, resp_sent, recorded, persona_vars>>

\* a reply datagram for result r to address dst; the number and the kind of the
\* result go along for the record
Reply(dst, r) == [dst |-> dst, sensor_id |-> r.sensor_id, seq |-> r.seq, res |-> r.res,
                  kind |-> r.kind]

\* sensor_socket.send_to(&bytes, addr)
RespSend ==
    /\ rs_pc = "send"
    /\ resp_sent' = Append(resp_sent, Reply(Unwrap(rs_dst), rs_cur))
    /\ rs_pc' = "recv"
    /\ UNCHANGED <<env, persistent_oai, parse_errors, audio_vars, vad_vars, client_map, s_pc,
                   s_cur, s_in, vad_rx, n_res, rs_cur, rs_dst, recorded, persona_vars>>

InitSensor == InitState("sensor", FALSE)

NextSensor ==
    \/ \E t \in Tasks : SensorRecv(t)
    \/ \E t \in Tasks : SensorInsert(t)
    \/ \E t \in Tasks : SensorSend(t)
    \/ WorkerRecv

SpecSensor == InitSensor /\ [][NextSensor]_vars

InitReply == InitState("reply", FALSE)

NextReply ==
    \/ \E t \in Tasks : SensorRecv(t)
    \/ \E t \in Tasks : SensorInsert(t)
    \/ \E t \in Tasks : SensorSend(t)
    \/ WorkerRecv
    \/ ResultArrives
    \/ RespRecv
    \/ RespLookup
    \/ RespSend

SpecReply == InitReply /\ [][NextReply]_vars

(***************************************************************************)
(* The persona state and its REST handlers.                                *)
(***************************************************************************)
rest_vars == <<env, persistent_oai, parse_errors, audio_vars, vad_vars, sensor_vars>>

\* a request reaches a handler; set_persona's match runs here
ApiRecv(h) ==
    /\ env = "persona"
    /\ h_pc[h] = "idle"
    /\ \A g \in Handlers : g < h => h_pc[g] # "idle"
    /\ n_req < MaxRequests
    /\ \E req \in ApiRequests :
         /\ h_req' = [h_req EXCEPT ![h] = Accepted(req, n_req + 1)]
         /\ IF req.method = "GET"
            THEN /\ h_pc' = [h_pc EXCEPT ![h] = "get"]
                 /\ h_resp' = [h_resp EXCEPT ![h] = NoResponse]
                 /\ h_new' = [h_new EXCEPT ![h] = "none"]
            ELSE IF new_persona(req) = None
            THEN /\ h_pc' = [h_pc EXCEPT ![h] = "idle"]
                 /\ h_resp' = [h_resp EXCEPT ![h] = ErrorResponse]
                 /\ h_new' = [h_new EXCEPT ![h] = "none"]
            ELSE /\ h_pc' = [h_pc EXCEPT ![h] = "put_old"]
                 /\ h_resp' = [h_resp EXCEPT ![h] = NoResponse]
                 /\ h_new' = [h_new EXCEPT ![h] = Unwrap(new_persona(req))]
    /\ n_req' = n_req + 1
    /\ h_old' = [h_old EXCEPT ![h] = "none"]
    /\ UNCHANGED <<rest_vars, persona, w_lock, sync_obs, installed>>

\* get_persona: state.get().await, which waits while a writer holds the lock
ApiGet(h) ==
    /\ h_pc[h] = "get"
    /\ w_lock = 0
    /\ h_resp' = [h_resp EXCEPT ![h] = PersonaResponse(persona)]
    /\ h_pc' = [h_pc EXCEPT ![h] = "idle"]
    /\ UNCHANGED <<rest_vars, persona, w_lock, h_req, h_new, h_old, n_req, sync_obs, installed>>

\* set_persona: let old = state.get().await
PutOld(h) ==
    /\ h_pc[h] = "put_old"
    /\ w_lock = 0
    /\ h_old' = [h_old EXCEPT ![h] = persona]
    /\ h_pc' = [h_pc EXCEPT ![h] = "put_lock"]
    /\ UNCHANGED <<rest_vars, persona, w_lock, h_req, h_new, h_resp, n_req, sync_obs, installed>>

\* PersonaState::set: self.inner.write().await
PutLock(h) ==
    /\ h_pc[h] = "put_lock"
    /\ w_lock = 0
    /\ w_lock' = h
    /\ h_pc' = [h_pc EXCEPT ![h] = "put_store"]
    /\ UNCHANGED <<rest_vars, persona, h_req, h_new, h_old, h_resp, n_req, sync_obs, installed>>

\* PersonaState::set: the store and the release of the guard; then the response
PutStore(h) ==
    /\ h_pc[h] = "put_store"
    /\ persona' = h_new[h]
    /\ installed' = Append(installed, h_new[h])
    /\ w_lock' = 0
    /\ h_resp' = [h_resp EXCEPT ![h] = PersonaResponse(h_new[h])]
    /\ h_pc' = [h_pc EXCEPT ![h] = "idle"]
    /\ UNCHANGED <<rest_vars, h_req, h_new, h_old, n_req, sync_obs>>

\* a VAD worker reads the persona with get_blocking
GetBlocking ==
    /\ env = "persona"
    /\ sync_obs' = [value |-> get_blocking(persona, w_lock # 0), held |-> w_lock # 0]
    /\ UNCHANGED <<rest_vars, persona, w_lock, h_pc, h_req, h_new, h_old, h_resp, n_req,
                   installed>>

InitPersona == InitState("persona", FALSE)

NextPersona ==
    \/ \E h \in Handlers : ApiRecv(h)
    \/ \E h \in Handlers : ApiGet(h)
    \/ \E h \in Handlers : PutOld(h)
    \/ \E h \in Handlers : PutLock(h)
    \/ \E h \in Handlers : PutStore(h)
    \/ GetBlocking

SpecPersona == InitPersona /\ [][NextPersona]_vars

(***************************************************************************)
(* The VAD processor workers (main.rs) and the sensor smoother             *)
(* (sensor_smoother.rs).                                                   *)
(***************************************************************************)
\* the number of packets the receivers send to the workers in specification
\* SpecWorkers
MaxWorkerInputs == 3

SENSOR_VECTOR_LEN == 10
SENSOR_VECTOR_BYTES == SENSOR_VECTOR_LEN * 4
IDLE_TIME_IDX == 6

\* f32::from_le_bytes, in thousandths, for magnitudes below 16 (the channels
\* are in [0, 1]): sign, 8 exponent bits, 23 mantissa bits; zero and
\* subnormals are 0
f32_from_le(b) ==
    LET negative == b[4] >= 128
        e == 2 * (b[4] % 128) + (b[3] \div 128)
        m24 == 8388608 + (b[3] % 128) * 65536 + b[2] * 256 + b[1]
        mag == IF e < 117 THEN 0
               ELSE IF e < 131 THEN ((m24 \div 1024) * 1000 + 2 ^ (139 - e)) \div (2 ^ (140 - e))
               ELSE 16000
    IN  IF negative THEN 0 - mag ELSE mag

\* SensorVector::from_payload and as_array: the ten channels, or None
from_payload(payload) ==
    IF Len(payload) < SENSOR_VECTOR_BYTES THEN None
    ELSE Some([i \in 0..(SENSOR_VECTOR_LEN - 1) |->
                 f32_from_le(SubSeq(payload, 4 * i + 1, 4 * i + 4))])

\* idle_alpha, in hundredths
idle_alpha(p) ==
    CASE p = "stubborn" -> 3
      [] p = "obedient" -> 5
      [] p = "cute" -> 8
      [] p = "mischievous" -> 15

\* alpha * raw_idle + (1.0 - alpha) * ema.idle_time: alpha in hundredths, raw
\* in thousandths, the state in millionths
ema(alpha, raw_idle, prev) == (alpha * raw_idle * 1000 + (100 - alpha) * prev + 50) \div 100

\* a smoother that keeps one state for all sensors: every id continues from
\* the state written last
smooth_shared(state, sensor_id, sensors, p) ==
    LET prev == IF DOMAIN state = {} THEN 0
                ELSE state[CHOOSE x \in DOMAIN state : TRUE]
        next == ema(idle_alpha(p), sensors[IDLE_TIME_IDX], prev)
    IN  [x \in (DOMAIN state) \cup {sensor_id} |-> next]

\* SensorSmoother::smooth: the state map afterwards
smooth(state, sensor_id, sensors, p) ==
    LET prev == IF sensor_id \in DOMAIN state THEN state[sensor_id] ELSE 0
    IN  [x \in (DOMAIN state) \cup {sensor_id} |->
            IF x = sensor_id THEN ema(idle_alpha(p), sensors[IDLE_TIME_IDX], prev)
            ELSE state[x]]

\* process_packet: what it does to the smoother's state
process_packet(state, packet, p) ==
    IF packet.data_type = DATA_TYPE_SENSOR_VECTOR
    THEN LET sv == from_payload(packet.payload)
         IN  IF IsSome(sv) THEN smooth(state, packet.sensor_id, Unwrap(sv), p) ELSE state
    ELSE state

\* a 40-byte sensor vector with the given bytes in the idle_time channel
VecPayload(idle) ==
    [i \in 1..(4 * IDLE_TIME_IDX) |-> 0] \o idle \o [i \in 1..12 |-> 0]

\* the f32 values 0.9 and 0.5
F32_0_9 == <<102, 102, 102, 63>>
F32_0_5 == <<0, 0, 0, 63>>

\* the packets a receiver may send as packet number n: sensor vectors of
\* sensors 7 and 9, an audio packet of sensor 7 and a sensor vector of sensor 9
\* whose payload is too short
WorkerPackets(n) ==
    { Unwrap(from_binary(sensor_datagram(7, 0, DATA_TYPE_SENSOR_VECTOR, n, 40,
                                         VecPayload(F32_0_9)))),
      Unwrap(from_binary(sensor_datagram(9, 0, DATA_TYPE_SENSOR_VECTOR, n, 40,
                                         VecPayload(F32_0_5)))),
      Unwrap(from_binary(sensor_datagram(7, 0, DATA_TYPE_AUDIO, n, 2, <<1, 2>>))),
      Unwrap(from_binary(sensor_datagram(9, 0, DATA_TYPE_SENSOR_VECTOR, n, 3, <<1, 2, 3>>))) }

\* a receiver's tx.try_send(packet), stats.record_channel_drop() when it fails
ProcSend ==
    /\ env = "workers"
    /\ ~vad_closed
    /\ n_in < MaxWorkerInputs
    /\ \E packet \in WorkerPackets(n_in + 1) :
         /\ vad_q' = try_send(vad_q, ChannelCapacity, packet)
         /\ channel_drops' = drops_after(channel_drops, vad_q, ChannelCapacity)
    /\ n_in' = n_in + 1
    /\ UNCHANGED <<env, persistent_oai, parse_errors, sessions, task_vars, active_esp,
                   bridge_q, reader_vars, wav_files, ws_out, history, sensor_vars,
                   persona_vars, down_log, life_vars, resample_vars, vad_closed, rx_guard,
                   wk_pc, wk_pkt, taken, smoother>>

\* the receivers end and drop tx and its clones: the queue is closed
ProcClose ==
    /\ env = "workers"
    /\ ~vad_closed
    /\ vad_closed' = TRUE
    /\ UNCHANGED <<env, persistent_oai, n_in, parse_errors, sessions, task_vars, active_esp,
                   bridge_q, reader_vars, wav_files, ws_out, vad_vars, history, sensor_vars,
                   persona_vars, down_log, life_vars, resample_vars, rx_guard, wk_pc, wk_pkt,
                   taken, smoother>>

\* rx.lock().await
WorkerLock(w) ==
    /\ wk_pc[w] = "lock"
    /\ rx_guard = 0
    /\ rx_guard' = w
    /\ wk_pc' = [wk_pc EXCEPT ![w] = "recv"]
    /\ UNCHANGED <<env, persistent_oai, n_in, parse_errors, sessions, task_vars, active_esp,
                   bridge_q, reader_vars, wav_files, ws_out, vad_vars, history, sensor_vars,
                   persona_vars, down_log, life_vars, resample_vars, vad_closed, wk_pkt,
                   taken, smoother>>

\* a recv that reports the end of the queue as soon as it is closed
recv_closed_first(q, closed) == IF closed THEN None ELSE Some(Head(q))

\* mpsc::Receiver::recv: completes with a message, or with None once the queue
\* is closed and empty
recv_ready(q, closed) == q # <<>> \/ closed
recv(q, closed) == IF q # <<>> THEN Some(Head(q)) ELSE None

\* guard.recv().await, the guard dropped, and the match on the packet
WorkerTake(w) ==
    /\ wk_pc[w] = "recv"
    /\ rx_guard = w
    /\ recv_ready(vad_q, vad_closed)
    /\ LET packet == recv(vad_q, vad_closed)
       IN  /\ wk_pkt' = [wk_pkt EXCEPT ![w] = packet]
           /\ vad_q' = IF IsSome(packet) THEN Tail(vad_q) ELSE vad_q
           /\ taken' = IF IsSome(packet)
                       THEN Append(taken, [worker |-> w, pkt |-> Unwrap(packet),
                                           closed |-> vad_closed])
                       ELSE taken
           /\ wk_pc' = [wk_pc EXCEPT ![w] = IF IsSome(packet) THEN "process" ELSE "stopped"]
    /\ rx_guard' = 0
    /\ UNCHANGED <<env, persistent_oai, n_in, parse_errors, sessions, task_vars, active_esp,
                   bridge_q, reader_vars, wav_files, ws_out, channel_drops, history,
                   sensor_vars, persona_vars, down_log, life_vars, resample_vars, vad_closed,
                   smoother>>

\* vad::process_packet for the packet taken, then round the loop
WorkerProcess(w) ==
    /\ wk_pc[w] = "process"
    /\ smoother' = process_packet(smoother, Unwrap(wk_pkt[w]), persona)
    /\ wk_pkt' = [wk_pkt EXCEPT ![w] = None]
    /\ wk_pc' = [wk_pc EXCEPT ![w] = "lock"]
    /\ UNCHANGED <<env, persistent_oai, n_in, parse_errors, sessions, task_vars, active_esp,
                   bridge_q, reader_vars, wav_files, ws_out, vad_vars, history, sensor_vars,
                   persona_vars, down_log, life_vars, resample_vars, vad_closed, rx_guard,
                   taken>>

\* the workers alone, fed by the receivers
InitWorkers == InitState("workers", FALSE)

NextWorkers ==
    \/ ProcSend
    \/ ProcClose
    \/ \E w \in Workers : WorkerLock(w)
    \/ \E w \in Workers : WorkerTake(w)
    \/ \E w \in Workers : WorkerProcess(w)

\* the runtime schedules every worker that can take a step; no packet has to
\* be sent and the queue does not have to be closed
SpecWorkers ==
    /\ InitWorkers
    /\ [][NextWorkers]_vars
    /\ \A w \in Workers : WF_vars(WorkerLock(w) \/ WorkerTake(w) \/ WorkerProcess(w))

(***************************************************************************)
(* Properties.                                                             *)
(***************************************************************************)
\* the state of the session of address a in session map m
StateOf(m, a) == IF a \in DOMAIN m THEN m[a].session.state ELSE "None"

\* the PCM buffer of address a in session map m (empty without a session)
BufferOf(m, a) == IF a \in DOMAIN m THEN m[a].session.audio_buffer ELSE <<>>

\* a session with an empty buffer and zero packet, byte and loss counters
Cleared(s) ==
    /\ s.audio_buffer = <<>>
    /\ s.audio_packets = 0
    /\ s.audio_bytes = 0
    /\ s.packets_lost = 0

\* the five bytes of a control frame on the wire, addressed to a device
ControlFrame(to, seq, cmd) ==
    [to |-> to, bytes |-> <<seq % 256, seq \div 256, PKT_CONTROL, 0, cmd>>]

\* task t takes the step that leaves the program point at
Leaves(t, at) == pc[t] = at /\ pc'[t] # at

\* task t has finished handling a control datagram with command cmd
Handled(t, cmd) ==
    /\ pc[t] = "recv"
    /\ IsSome(cur[t].pkt)
    /\ Pkt(t).pkt_type = PKT_CONTROL
    /\ control_cmd(Pkt(t)) = Some(cmd)

RECURSIVE Flatten(_)
Flatten(ss) == IF ss = <<>> THEN <<>> ELSE Head(ss) \o Flatten(Tail(ss))

RECURSIVE SumLen(_)
SumLen(ss) == IF ss = <<>> THEN 0 ELSE Len(Head(ss)) + SumLen(Tail(ss))

\* C1: the session-map step of a SessionStart with sequence s from an address
\* whose session is Idle or absent leaves the session Receiving with an empty
\* buffer and zero packet, byte and loss counters, and the handler has then sent
\* exactly one frame: Control(ServerReady) with sequence s to that address.
C1_StartFromIdle ==
    [][\A t \in Tasks :
         (Leaves(t, "start_lock") /\ StateOf(sessions, Src(t)) \in {"Idle", "None"})
         => /\ StateOf(sessions', Src(t)) = "Receiving"
            /\ Cleared(sessions'[Src(t)].session)
            /\ sent'[t] = <<ControlFrame(Src(t), Pkt(t).seq_num, CTRL_SERVER_READY)>>]_vars

\* a SessionStart that was the first datagram of its address has been handled
C1_Witness ==
    \E t \in Tasks :
        /\ Handled(t, CTRL_SESSION_START)
        /\ applied[Src(t)] = <<cur[t].id>>
        /\ StateOf(sessions, Src(t)) = "Receiving"
        /\ sent[t] = <<ControlFrame(Src(t), Pkt(t).seq_num, CTRL_SERVER_READY)>>

\* C2: under every interleaving of the receiver tasks a session's buffer grows
\* only in the session-map step of an AudioUp from that address, taken while the
\* session is Receiving (or absent, which opens it); an AudioUp that finds the
\* session Processing or Idle leaves the buffer alone; and a session that left
\* Receiving gets back to it only through a SessionStart.
C2_AppendOnlyReceiving ==
    [][\A a \in Addrs :
         /\ Len(BufferOf(sessions', a)) > Len(BufferOf(sessions, a))
            => \E t \in Tasks : /\ Leaves(t, "audio_lock")
                                /\ Src(t) = a
                                /\ StateOf(sessions, a) \in {"Receiving", "None"}
         /\ \A t \in Tasks :
              (Leaves(t, "audio_lock") /\ Src(t) = a
                 /\ StateOf(sessions, a) \in {"Processing", "Idle"})
              => BufferOf(sessions', a) = BufferOf(sessions, a)
         /\ (StateOf(sessions, a) \in {"Processing", "Idle"}
               /\ StateOf(sessions', a) = "Receiving")
            => \E t \in Tasks : Leaves(t, "start_lock") /\ Src(t) = a]_vars

\* an AudioUp with a payload was handled while its session was not Receiving
C2_Witness ==
    \E t \in Tasks :
        /\ pc[t] = "recv"
        /\ IsSome(cur[t].pkt)
        /\ Pkt(t).pkt_type = PKT_AUDIO_UP
        /\ Pkt(t).payload # <<>>
        /\ ~fwd_tx[t].should_forward
        /\ StateOf(sessions, Src(t)) \in {"Processing", "Idle"}

\* C3: while a session is Receiving its buffer is the concatenation, in handling
\* order, of the payloads of the AudioUp packets handled in this window, each
\* once; the packet count is their number and the byte count the sum of their
\* lengths.
C3_AppendedOnce ==
    \A a \in DOMAIN sessions :
        sessions[a].session.state = "Receiving"
        => /\ sessions[a].session.audio_buffer = Flatten(window[a])
           /\ sessions[a].session.audio_packets = Len(window[a])
           /\ sessions[a].session.audio_bytes = SumLen(window[a])

\* a Receiving window in which three packets were handled, one of them empty
C3_Witness ==
    \E a \in DOMAIN sessions :
        /\ sessions[a].session.state = "Receiving"
        /\ Len(window[a]) = 3
        /\ \E i \in 1..3 : window[a][i] = <<>>
        /\ sessions[a].session.audio_bytes = 4

\* C4: an AudioUp with sequence seq recorded after the first one of its window
\* adds (seq - (last_seen + 1)) mod 2^16 to the loss counter, which is 0 when seq
\* is the wrapping successor of last_seen (0 after 65535); the first packet
\* recorded in a window adds nothing.
C4_LossDistance ==
    [][\A t \in Tasks :
         Leaves(t, "audio_lock")
         => LET a == Src(t)
                seq == Pkt(t).seq_num
                old == IF a \in DOMAIN sessions THEN sessions[a].session
                       ELSE [EspSession_new EXCEPT !.state = "Receiving"]
                new == sessions'[a].session
            IN  old.state = "Receiving"
                => /\ old.audio_packets > 0
                      => new.packets_lost
                           = old.packets_lost + ((seq - (old.last_recv_seq + 1)) % U16)
                   /\ (old.audio_packets > 0 /\ seq = (old.last_recv_seq + 1) % U16)
                      => new.packets_lost = old.packets_lost
                   /\ old.audio_packets = 0 => new.packets_lost = old.packets_lost]_vars

\* sequence 0 was recorded right after 65535 and no loss was counted
C4_Witness ==
    \E a \in DOMAIN sessions :
        /\ sessions[a].session.state = "Receiving"
        /\ sessions[a].session.audio_packets = 2
        /\ sessions[a].session.last_recv_seq = 0
        /\ sessions[a].session.packets_lost = 0

\* the WAV files written by the handler of datagram id
WavsBy(files, id) == {i \in 1..Len(files) : files[i].id = id}

\* no two WAV files of one address for the same window
OneWavPerWindow(files) ==
    \A i, j \in 1..Len(files) :
        (i < j /\ files[i].file.src = files[j].file.src) => files[i].win # files[j].win

\* task t has finished handling a SessionEnd: the command or the END flag
EndHandled(t) ==
    /\ pc[t] = "recv"
    /\ IsSome(cur[t].pkt)
    /\ \/ Pkt(t).pkt_type = PKT_CONTROL /\ control_cmd(Pkt(t)) = Some(CTRL_SESSION_END)
       \/ Pkt(t).pkt_type = PKT_AUDIO_UP /\ is_end(Pkt(t))

\* C5: a SessionEnd (the command or an AudioUp with the END flag) that finds its
\* session Receiving takes the snapshot, and its handler then writes one WAV
\* file if the snapshot is non-empty and none if it is empty, has sent exactly
\* one frame, Control(Ack), and leaves the session Idle; however SessionEnds
\* repeat or overlap, no window of an address gets a second WAV file.
C5_OneWavOneAck ==
    [][/\ \A t \in Tasks :
            /\ (Leaves(t, "end_lock") /\ StateOf(sessions, Src(t)) = "Receiving")
               => /\ IsSome(session_data'[t])
                  /\ pc'[t] \in {"end_commit", "end_reset"}
                  /\ sent'[t] = <<>>
                  /\ wav_files' = wav_files
            /\ (Leaves(t, "end_commit") /\ IsSome(session_data[t]))
               => /\ pc'[t] = "end_reset"
                  /\ sent'[t] = <<>>
                  /\ wav_files' = wav_files
            /\ Leaves(t, "end_reset")
               => /\ pc'[t] = "recv"
                  /\ Cardinality(WavsBy(wav_files', cur[t].id))
                       = (IF Unwrap(session_data[t]).audio_buf # <<>> THEN 1 ELSE 0)
                  /\ Len(wav_files') = Len(wav_files) + Cardinality(WavsBy(wav_files', cur[t].id))
                  /\ sent'[t] = <<ControlFrame(Src(t), Pkt(t).seq_num, CTRL_ACK)>>
                  /\ StateOf(sessions', Src(t)) = "Idle"
       /\ OneWavPerWindow(wav_files')]_vars

\* two SessionEnds of one address were handled, the later one while the session
\* was no longer Receiving: one WAV file, one Ack each
C5_Witness ==
    \E t, u \in Tasks :
        /\ t # u
        /\ EndHandled(t) /\ EndHandled(u)
        /\ Src(t) = Src(u)
        /\ closed_win[t] > 0 /\ closed_win[u] = 0
        /\ Len(wav_files) = 1
        /\ wav_files[1].id = cur[t].id
        /\ sent[t] = <<ControlFrame(Src(t), Pkt(t).seq_num, CTRL_ACK)>>
        /\ sent[u] = <<ControlFrame(Src(u), Pkt(u).seq_num, CTRL_ACK)>>
        /\ StateOf(sessions, Src(t)) = "Idle"

\* the scripted turn is over and its five datagrams were handled in script order
TurnInOrder ==
    /\ n_in = 5
    /\ \A t \in Tasks : pc[t] = "recv"
    /\ applied["A"] = <<1, 2, 3, 4, 5>>

\* one WAV of the 2100 bytes sent, one packet lost, one Ack, session Idle
TurnResult ==
    /\ Len(wav_files) = 1
    /\ wav_files[1].file.src = "A"
    /\ wav_files[1].file.data_len = 2100
    /\ wav_files[1].file.pcm = Pcm700(10) \o Pcm700(11) \o Pcm700(13)
    /\ \E t \in Tasks :
         /\ cur[t].id = 5
         /\ IsSome(session_data[t])
         /\ Unwrap(session_data[t]).lost = 1
         /\ sent[t] = <<ControlFrame("A", 14, CTRL_ACK)>>
    /\ StateOf(sessions, "A") = "Idle"

\* C6: the snapshot a SessionEnd takes, in the step that moves the session from
\* Receiving to Processing, is the bytes appended during the window in append
\* order, and the WAV written holds exactly the snapshot; after SessionStart,
\* AudioUp 10, 11 and 13 of 700 bytes each and SessionEnd, handled in that order,
\* the WAV payload is 2100 bytes, packets_lost is 1, one Ack was sent and the
\* session is Idle.
C6_WavIsWindow ==
    [][/\ \A t \in Tasks :
            /\ (Leaves(t, "end_lock") /\ StateOf(sessions, Src(t)) = "Receiving")
               => /\ IsSome(session_data'[t])
                  /\ Unwrap(session_data'[t]).audio_buf = Flatten(window[Src(t)])
                  /\ StateOf(sessions', Src(t)) = "Processing"
            /\ (Leaves(t, "end_reset") /\ Unwrap(session_data[t]).audio_buf # <<>>)
               => LET buf == Unwrap(session_data[t]).audio_buf
                  IN  /\ Len(wav_files') = Len(wav_files) + 1
                      /\ wav_files'[Len(wav_files')].file
                           = [src |-> Src(t), data_len |-> Len(buf), pcm |-> buf]
       /\ TurnInOrder' => TurnResult']_vars

\* the turn was handled in script order and its WAV was written
C6_Witness == TurnInOrder /\ Len(wav_files) = 1 /\ wav_files[1].file.data_len = 2100

\* C7: the session-map step of a Cancel from a device that has a session, in
\* whatever state, leaves the session Idle with an empty buffer, zero packet,
\* byte and loss counters and no bridge sender; the handler has sent exactly one
\* frame when it is done, Control(Ack) to the device.
C7_Cancel ==
    [][\A t \in Tasks :
         /\ (Leaves(t, "cancel_lock") /\ Src(t) \in DOMAIN sessions)
            => /\ StateOf(sessions', Src(t)) = "Idle"
               /\ Cleared(sessions'[Src(t)].session)
               /\ sessions'[Src(t)].openai_tx = FALSE
         /\ (pc[t] \in {"cancel_lock", "cancel_clear_active", "cancel_clear_input"}
               /\ pc'[t] # pc[t])
            => sent'[t] = IF pc'[t] = "recv"
                          THEN <<ControlFrame(Src(t), Pkt(t).seq_num, CTRL_ACK)>>
                          ELSE <<>>]_vars

\* a Cancel was handled while a SessionEnd of the same device held the session
\* in Processing
C7_Witness ==
    \E t, u \in Tasks :
        /\ Handled(t, CTRL_CANCEL)
        /\ pc[u] = "end_reset"
        /\ Src(u) = Src(t)
        /\ Len(applied[Src(t)]) = 3
        /\ applied[Src(t)][2] = cur[u].id
        /\ applied[Src(t)][3] = cur[t].id
        /\ StateOf(sessions, Src(t)) = "Idle"
        /\ sent[t] = <<ControlFrame(Src(t), Pkt(t).seq_num, CTRL_ACK)>>

\* C8: a SessionStart that finds the session Receiving clears buffer and
\* counters, leaves it Receiving and replies ServerReady once more; a SessionEnd
\* that finds the session not Receiving, or no session, changes no session,
\* writes no WAV, and its handler has sent exactly one frame, Control(Ack).
C8_Idempotent ==
    [][\A t \in Tasks :
         /\ (Leaves(t, "start_lock") /\ StateOf(sessions, Src(t)) = "Receiving")
            => /\ StateOf(sessions', Src(t)) = "Receiving"
               /\ Cleared(sessions'[Src(t)].session)
               /\ sent'[t] = <<ControlFrame(Src(t), Pkt(t).seq_num, CTRL_SERVER_READY)>>
         /\ (Leaves(t, "end_lock") /\ StateOf(sessions, Src(t)) # "Receiving")
            => /\ sessions' = sessions
               /\ session_data'[t] = None
               /\ wav_files' = wav_files
               /\ pc'[t] \in {"end_commit", "recv"}
         /\ (Leaves(t, "end_commit") /\ session_data[t] = None)
            => /\ sessions' = sessions
               /\ wav_files' = wav_files
               /\ pc'[t] = "recv"
         /\ (pc[t] \in {"end_lock", "end_commit"} /\ pc'[t] = "recv")
            => /\ sent'[t] = <<ControlFrame(Src(t), Pkt(t).seq_num, CTRL_ACK)>>
               /\ WavsBy(wav_files', cur[t].id) = {}]_vars

\* a SessionStart was handled right after an AudioUp had put bytes into the
\* Receiving session
C8_Witness ==
    \E t, u \in Tasks :
        /\ Handled(t, CTRL_SESSION_START)
        /\ IsSome(cur[u].pkt)
        /\ Pkt(u).pkt_type = PKT_AUDIO_UP
        /\ Pkt(u).payload # <<>>
        /\ ~is_end(Pkt(u))
        /\ fwd_tx[u].should_forward
        /\ Src(u) = Src(t)
        /\ Len(applied[Src(t)]) = 3
        /\ applied[Src(t)][2] = cur[u].id
        /\ applied[Src(t)][3] = cur[t].id
        /\ StateOf(sessions, Src(t)) = "Receiving"
        /\ Cleared(sessions[Src(t)].session)

\* the reader task takes an upstream event
ReaderTakes == r_pc = "next" /\ n_in' = n_in + 1 /\ cur' = cur

\* C9: the active-device cell holds no or one address; the reader reads it once
\* when it handles a response.audio.delta, every audio-down frame of that delta
\* goes to the address read, and with an empty cell the audio is dropped: no
\* frame, no fragment, no sequence number used.
C9_RouteToActive ==
    [][/\ active_esp' \in {None} \cup {Some(a) : a \in Addrs}
       /\ (ReaderTakes /\ r_ev'.type = "response.audio.delta")
          => /\ r_esp' = active_esp
             /\ r_sent' = <<>>
             /\ active_esp = None
                => r_chunks' = <<>> /\ r_pc' = "next" /\ out_seq' = out_seq
       /\ (r_pc = "send" /\ r_sent' # r_sent)
          => /\ r_esp' = r_esp
             /\ r_sent' = Append(r_sent, r_sent'[Len(r_sent')])
             /\ r_sent'[Len(r_sent')].to = Unwrap(r_esp)
             /\ r_sent'[Len(r_sent')].bytes[3] = PKT_AUDIO_DOWN
       /\ (r_ev'.type = "response.audio.delta" /\ r_esp' = None) => r_sent' = <<>>]_vars

\* a frame of a delta went to the address read when the delta was handled,
\* though the cell had been given another address before the frame was sent
C9_Witness ==
    /\ r_ev.type = "response.audio.delta"
    /\ r_pc = "next"
    /\ r_sent # <<>>
    /\ IsSome(r_esp) /\ IsSome(active_esp)
    /\ active_esp # r_esp
    /\ \A i \in 1..Len(r_sent) : r_sent[i].to = Unwrap(r_esp)

\* C10: SessionStart puts the sender's address into the active-device cell,
\* Cancel empties it, no step of a SessionEnd handler changes it, and nothing
\* else does: after a SessionEnd the cell, and with it the routing of reply
\* audio, stays as it is until the next SessionStart or Cancel.
C10_ActiveSetAndCleared ==
    [][/\ \A t \in Tasks :
            /\ Leaves(t, "start_set_active") => active_esp' = Some(Src(t))
            /\ Leaves(t, "cancel_clear_active") => active_esp' = None
            /\ (pc[t] \in {"end_lock", "end_commit", "end_reset"} /\ pc'[t] # pc[t])
               => active_esp' = active_esp
       /\ active_esp' # active_esp
          => \E t \in Tasks : \/ Leaves(t, "start_set_active")
                              \/ Leaves(t, "cancel_clear_active")]_vars

\* reply audio that arrived after device A's SessionEnd was handled went to A
C10_Witness ==
    \E t \in Tasks :
        /\ EndHandled(t)
        /\ Src(t) = "A"
        /\ closed_win[t] > 0
        /\ StateOf(sessions, "A") = "Idle"
        /\ r_ev.type = "response.audio.delta"
        /\ r_ev.id > cur[t].id
        /\ r_sent # <<>>
        /\ r_sent[1].to = "A"
        /\ active_esp = Some("A")

\* C11: of the events written upstream, no input_audio_buffer.append of a chunk
\* that was accepted into the audio queue before the input_audio_buffer.commit
\* of its window's END was issued comes after that commit.
C11_NoAppendAfterCommit ==
    \A i, j \in 1..Len(ws_out) :
        (/\ ws_out[i].type = "input_audio_buffer.commit"
         /\ ws_out[j].type = "input_audio_buffer.append"
         /\ ws_out[j].src = ws_out[i].src
         /\ ws_out[i].win > 0
         /\ ws_out[j].win = ws_out[i].win
         /\ ws_out[j].after < ws_out[i].n)
        => j < i

\* C12: of the events written upstream, the input_audio_buffer.append events of
\* one window of a device come in the order their AudioUp datagrams arrived.
C12_AppendsInArrivalOrder ==
    \A i, j \in 1..Len(ws_out) :
        (/\ i < j
         /\ ws_out[i].type = "input_audio_buffer.append"
         /\ ws_out[j].type = "input_audio_buffer.append"
         /\ ws_out[i].src = ws_out[j].src
         /\ ws_out[i].win > 0
         /\ ws_out[i].win = ws_out[j].win)
        => ws_out[i].id < ws_out[j].id

\* C13: the control events come out on the WebSocket in the order they were
\* issued, and whenever the writer takes its next item while a control event is
\* queued, it writes the oldest queued control event and leaves the audio queue
\* as it is.
C13_ControlOrderAndBias ==
    [][ws_out' # ws_out
       => /\ Len(ws_out') = Len(ws_out) + 1
          /\ SubSeq(ws_out', 1, Len(ws_out)) = ws_out
          /\ ctrl_q # <<>>
             => /\ ws_out'[Len(ws_out')] = Head(ctrl_q)
                /\ ctrl_q' = Tail(ctrl_q)
                /\ audio_q' = audio_q
          /\ \A i, j \in 1..Len(ws_out') :
               (i < j /\ ws_out'[i].n > 0 /\ ws_out'[j].n > 0)
               => ws_out'[i].n < ws_out'[j].n]_vars

\* two control events were written in issue order, the second one ahead of an
\* audio chunk that had been queued before it was issued
C13_Witness ==
    \E i, j, k \in 1..Len(ws_out) :
        /\ i < j /\ j < k
        /\ ws_out[i].n > 0
        /\ ws_out[j].n > ws_out[i].n
        /\ ws_out[k].type = "input_audio_buffer.append"
        /\ ws_out[k].after < ws_out[j].n

\* a step of receiver task t
TaskNext(t) ==
    \/ Recv(t) \/ StartSetActive(t) \/ StartClear(t) \/ StartLock(t)
    \/ EndLock(t) \/ EndCommit(t) \/ EndReset(t)
    \/ CancelLock(t) \/ CancelClearActive(t) \/ CancelClearInput(t)
    \/ AudioLock(t) \/ AudioVad(t) \/ AudioFwd(t)

\* C14: a receiver task in the middle of handling a datagram never waits on a
\* full queue: whatever the queues hold, its next step can be taken.
C14_ReceiverNeverWaits ==
    \A t \in Tasks : pc[t] # "recv" => ENABLED TaskNext(t)

\* C15: an AudioUp whose chunk finds the bridge audio-chunk queue full leaves
\* the queue as it is, adds one to the drop counter and goes on; the payload is
\* in the session buffer.
C15_DropCounted ==
    [][\A t \in Tasks :
         (Leaves(t, "audio_fwd") /\ Len(audio_q) >= AUDIO_CHANNEL_CAP)
         => /\ audio_q' = audio_q
            /\ channel_drops' = channel_drops + 1
            /\ pc'[t] = "recv"]_vars

\* the sensor packet that task t is handling
SensorPkt(t) == Unwrap(s_cur[t].packet)

\* task t leaves position at in this step
SensorLeaves(t, at) == s_pc[t] = at /\ s_pc'[t] # at

\* C16: a sensor datagram that parses is first recorded in the client map
\* (sensor id -> its source address) and then try-sent to the dispatcher queue;
\* with the queue full the packet is dropped, the drop metric grows by exactly
\* one, the mapping has been updated all the same and the receiver goes back
\* to receiving.
C16_UpsertThenTrySend ==
    [][\A t \in Tasks :
         /\ (s_pc[t] = "recv" /\ s_cur'[t] # s_cur[t] /\ s_cur'[t].packet # None)
            => s_pc'[t] = "insert"
         /\ SensorLeaves(t, "insert")
            => /\ client_map'[SensorPkt(t).sensor_id] = Some(s_cur[t].src)
               /\ s_pc'[t] = "send"
               /\ vad_vars' = vad_vars
         /\ SensorLeaves(t, "send")
            => /\ \E i \in DOMAIN recorded[SensorPkt(t).sensor_id] :
                    recorded[SensorPkt(t).sensor_id][i] = [n |-> s_cur[t].n, src |-> s_cur[t].src]
               /\ IF Len(vad_q) >= ChannelCapacity
                  THEN vad_q' = vad_q /\ channel_drops' = channel_drops + 1
                  ELSE vad_q' = Append(vad_q, SensorPkt(t)) /\ channel_drops' = channel_drops
               /\ client_map' = client_map
               /\ s_pc'[t] = "recv"]_vars

\* a packet was dropped at a full dispatcher queue, its sender is in the map
C16_Witness ==
    /\ channel_drops >= 1
    /\ Len(vad_q) = ChannelCapacity
    /\ Len(recorded[7]) + Len(recorded[9]) > ChannelCapacity
    /\ \A t \in Tasks : s_pc[t] = "recv"

\* the address most recently recorded for sensor id (None when there is none)
LastRecorded(id) ==
    IF recorded[id] = <<>> THEN None ELSE Some(recorded[id][Len(recorded[id])].src)

Allowed == {InitialPersona} \cup {installed[i] : i \in DOMAIN installed}

C19_SyncReadNeverWaits ==
    [][/\ ENABLED GetBlocking
       /\ sync_obs' # sync_obs
          => /\ sync_obs'.held = (w_lock # 0)
             /\ sync_obs'.value = IF w_lock # 0 THEN "obedient" ELSE persona]_vars

\* a synchronous read under a writer gave Obedient over a committed Cute
C19_Witness ==
    /\ sync_obs = [value |-> "obedient", held |-> TRUE]
    /\ persona = "cute"
    /\ w_lock # 0

\* a PUT body names a persona: a name, or without a name an index in 0..3
ValidBody(req) ==
    \/ IsSome(req.persona)
    \/ IsSome(req.index) /\ Unwrap(req.index) \in 0..3

\* the persona a valid body names
Named(req) ==
    IF IsSome(req.persona) THEN Unwrap(req.persona)
    ELSE CHOOSE p \in PersonaTrait : index(p) = Unwrap(req.index)

\* the persona committed last
Committed == IF installed = <<>> THEN InitialPersona ELSE installed[Len(installed)]

\* C20: PUT /persona with a name or an index in 0..3 installs the named persona
\* and answers 200 with it and its index, and a GET served next answers that
\* persona; a body with neither field or only an index out of range answers 400
\* and leaves the persona as it was.
C20_PutPersona ==
    [][\A h \in Handlers :
         /\ (h_req'[h].n # h_req[h].n /\ h_req'[h].method = "PUT" /\ h_pc'[h] # "idle")
            => ValidBody(h_req'[h]) /\ h_new'[h] = Named(h_req'[h])
         /\ (h_req'[h].n # h_req[h].n /\ h_req'[h].method = "PUT" /\ h_pc'[h] = "idle")
            => /\ ~ValidBody(h_req'[h])
               /\ h_resp'[h].status = BAD_REQUEST
               /\ persona' = persona
         /\ (h_pc[h] = "put_store" /\ h_pc'[h] # "put_store")
            => /\ persona' = Named(h_req[h])
               /\ h_resp'[h] = [status |-> OK, persona |-> Named(h_req[h]),
                                index |-> index(Named(h_req[h]))]
         /\ (h_pc[h] = "get" /\ h_pc'[h] # "get")
            => h_resp'[h] = [status |-> OK, persona |-> Committed, index |-> index(Committed)]
         /\ (persona' # persona) => \E g \in Handlers : h_pc[g] = "put_store" /\ h_pc'[g] = "idle"]_vars

\* index 1 was installed and a GET answered mischievous; another body got 400
C20_Witness ==
    /\ installed = <<"mischievous">>
    /\ \E h, g \in Handlers :
         /\ h_req[h].method = "GET"
         /\ h_resp[h] = [status |-> OK, persona |-> "mischievous", index |-> 1]
         /\ h_req[g].method = "PUT"
         /\ h_req[g].persona = None
         /\ h_req[g].index = Some(4)
         /\ h_resp[g].status = BAD_REQUEST

\* the bytes of the datagram task t takes in this step
Taken(t) == cur'[t].buf

\* task t takes a datagram in this step
Takes(t) == cur'[t].id # cur[t].id

\* a datagram the audio port rejects: shorter than the header, an unknown type
\* byte, or more than ESP_MAX_PAYLOAD bytes after the header
Malformed(buf) ==
    \/ Len(buf) < 4
    \/ buf[3] \notin {1, 2, 3, 4}
    \/ Len(buf) - 4 > 1400

\* session and bridge state
SessionAndBridge == <<sessions, active_esp, audio_q, ctrl_q, ws_out, vad_q, wav_files>>

\* C21: a malformed datagram on the audio port is dropped: the parse-error
\* counter grows by exactly one, no reply is sent, no session or bridge state
\* changes and the task goes back to receiving.
C21_MalformedDropped ==
    [][\A t \in Tasks :
         (Takes(t) /\ Malformed(Taken(t)))
         => /\ parse_errors' = parse_errors + 1
            /\ sent'[t] = <<>>
            /\ SessionAndBridge' = SessionAndBridge
            /\ pc'[t] = "recv"]_vars

\* with a session open, an AudioUp one byte too long was dropped and counted
\* after another malformed datagram
C21_Witness ==
    /\ parse_errors = 2
    /\ "A" \in DOMAIN sessions
    /\ \E t \in Tasks : cur[t].pkt = None /\ Len(cur[t].buf) = 4 + 1400 + 1 /\ pc[t] = "recv"

\* C22: a Heartbeat with sequence s from an address is answered with exactly one
\* Heartbeat frame with sequence s and no payload to that address; no session is
\* created and no session, counter or bridge state changes.
C22_HeartbeatMirrored ==
    [][\A t \in Tasks :
         (Takes(t) /\ ~Malformed(Taken(t)) /\ Taken(t)[3] = PKT_HEARTBEAT)
         => /\ sent'[t] = <<[to |-> cur'[t].src,
                             bytes |-> <<Taken(t)[1], Taken(t)[2], PKT_HEARTBEAT, 0>>]>>
            /\ SessionAndBridge' = SessionAndBridge
            /\ <<parse_errors, channel_drops>>' = <<parse_errors, channel_drops>>
            /\ pc'[t] = "recv"]_vars

\* a heartbeat with a payload from B, which has no session, was mirrored bare
C22_Witness ==
    \E t \in Tasks :
        /\ cur[t].src = "B"
        /\ cur[t].buf = <<255, 255, PKT_HEARTBEAT, FLAG_URGENT, 9>>
        /\ sent[t] = <<[to |-> "B", bytes |-> <<255, 255, PKT_HEARTBEAT, 0>>]>>
        /\ "B" \notin DOMAIN sessions
        /\ "A" \in DOMAIN sessions

\* the fields of a frame sent on the audio socket
SeqOf(f) == f.bytes[1] + 256 * f.bytes[2]
TypeOf(f) == f.bytes[3]
FlagsOf(f) == f.bytes[4]
PayloadOf(f) == SubSeq(f.bytes, 5, Len(f.bytes))

\* the reader has handled a delta of n bytes for device a to the end
DeltaDone(n, a) ==
    /\ r_ev.type = "response.audio.delta"
    /\ Len(r_ev.delta) = n
    /\ r_pc = "next"
    /\ r_esp = Some(a)

\* a Control(StreamEnd) frame with sequence number q
StreamEndFrame(q) == <<q % 256, q \div 256, PKT_CONTROL, 0, CTRL_STREAM_END>>

\* the reader has handled a response.audio.done for device a: one StreamEnd to a
DoneAnswered(a) ==
    (r_ev.type = "response.audio.done" /\ r_esp = Some(a))
    => /\ Len(r_sent) = 1
       /\ r_sent[1].to = a
       /\ r_sent[1].bytes = StreamEndFrame(SeqOf(r_sent[1]))

\* the frames of a delta handled to the end: n audio-down frames of at most
\* 1400 bytes of payload, to device a
FramesOfDelta(n, a) ==
    /\ Len(r_sent) = n
    /\ \A i \in 1..Len(r_sent) :
         /\ r_sent[i].to = a
         /\ TypeOf(r_sent[i]) = PKT_AUDIO_DOWN
         /\ Len(PayloadOf(r_sent[i])) <= 1400

\* C23 as stated: a delta of 3000 samples at 24 kHz for device A gives 2
\* audio-down frames of at most 1400 bytes to A, and response.audio.done one
\* Control(StreamEnd) to A.
C23_TwoFrames ==
    /\ DeltaDone(6000, "A") => FramesOfDelta(2, "A")
    /\ DoneAnswered("A")

\* C23 amended: a delta of 3000 samples at 24 kHz for device A gives 3
\* audio-down frames of at most 1400 bytes to A (2000 samples at 16 kHz are 4000
\* bytes), and response.audio.done one Control(StreamEnd) to A.
C23_ThreeFrames ==
    /\ DeltaDone(6000, "A") => FramesOfDelta(3, "A")
    /\ DoneAnswered("A")

\* after a SessionStart of A: three audio-down frames to A, then a StreamEnd
C23_Witness ==
    /\ r_ev.type = "response.audio.done"
    /\ r_esp = Some("A")
    /\ Len(down_log) = 4
    /\ \A i \in 1..3 : TypeOf(down_log[i].frame) = PKT_AUDIO_DOWN /\ down_log[i].frame.to = "A"
    /\ TypeOf(down_log[4].frame) = PKT_CONTROL
    /\ down_log[4].frame.to = "A"

\* the payloads of the frames the reader sent for its current event
SentPayloads == [i \in 1..Len(r_sent) |-> PayloadOf(r_sent[i])]

\* C24: the frames of one delta carry the audio resampled to 16 kHz: payloads of
\* at most 1400 bytes whose concatenation in send order is the resampled audio,
\* each of type AudioDown with flags 0; each frame the reader sends takes the
\* next value of its wrapping 16-bit counter.
C24_FramesCarryResampled ==
    /\ (r_ev.type = "response.audio.delta" /\ r_pc = "next" /\ IsSome(r_esp))
       => /\ Flatten(SentPayloads) = resample_24k_to_16k(r_ev.delta)
          /\ \A i \in 1..Len(r_sent) :
                /\ Len(PayloadOf(r_sent[i])) <= 1400
                /\ TypeOf(r_sent[i]) = PKT_AUDIO_DOWN
                /\ FlagsOf(r_sent[i]) = 0
    /\ \A i \in 1..(Len(down_log) - 1) :
         SeqOf(down_log[i + 1].frame) = (SeqOf(down_log[i].frame) + 1) % 65536

\* the two frames of a delta were numbered 65535 and 0
C24_Witness ==
    /\ r_ev.type = "response.audio.delta"
    /\ r_pc = "next"
    /\ Len(r_sent) = 2
    /\ SeqOf(r_sent[1]) = 65535
    /\ SeqOf(r_sent[2]) = 0
    /\ Len(PayloadOf(r_sent[2])) = 2

\* C25: the reader sends the fragments of a delta in offset order and takes the
\* next upstream event only when every fragment is sent, so that frames leave in
\* the order of their deltas and the Control(StreamEnd) of a response.audio.done
\* goes to the active device after every fragment of the deltas before it.
C25_DownOrder ==
    [][/\ SubSeq(down_log', 1, Len(down_log)) = down_log
       /\ \A i, j \in DOMAIN down_log' : i < j => down_log'[i].ev <= down_log'[j].ev
       /\ ReaderTakes => r_chunks = <<>>
       /\ (r_pc = "send" /\ r_chunks' # r_chunks)
          => LET res == resample_24k_to_16k(r_ev.delta)
                 off == SumLen(SentPayloads)
                 new == down_log'[Len(down_log')]
             IN  /\ Len(down_log') = Len(down_log) + 1
                 /\ new.ev = r_ev.id
                 /\ PayloadOf(new.frame) =
                        SubSeq(res, off + 1, IF off + 1400 < Len(res) THEN off + 1400 ELSE Len(res))
       /\ (ReaderTakes /\ r_ev'.type = "response.audio.done" /\ IsSome(active_esp))
          => /\ Len(down_log') = Len(down_log) + 1
             /\ down_log'[Len(down_log')].ev = r_ev'.id
             /\ down_log'[Len(down_log')].frame.to = Unwrap(active_esp)
             /\ TypeOf(down_log'[Len(down_log')].frame) = PKT_CONTROL
             /\ PayloadOf(down_log'[Len(down_log')].frame) = <<CTRL_STREAM_END>>]_vars

\* the frames of two deltas, the later one's after the earlier one's, and then
\* the StreamEnd
C25_Witness ==
    /\ Len(down_log) = 5
    /\ down_log[2].ev < down_log[3].ev
    /\ \A i \in 1..4 : TypeOf(down_log[i].frame) = PKT_AUDIO_DOWN
    /\ TypeOf(down_log[5].frame) = PKT_CONTROL

\* C26: for one source address, the session map sees the control commands and
\* the AudioUp datagrams in the order they arrived: the datagram numbers in the
\* order of their critical sections are ascending.
C26_AppliedInArrivalOrder ==
    \A a \in Addrs : \A i, j \in 1..Len(applied[a]) :
        i < j => applied[a][i] < applied[a][j]

\* the critical section of an AudioUp of task t
AudioApplied(t) == pc[t] = "audio_lock" /\ pc'[t] # "audio_lock"

\* C27: an AudioUp from an address without a session record creates a session
\* that is Receiving, has no bridge sender and holds the payload; an AudioUp for
\* a session that is not Receiving leaves the session as it is and goes on
\* without the dispatcher and bridge steps; the dispatcher queue and the bridge's
\* audio queue grow in those steps only.
C27_AudioUpBySessionState ==
    [][/\ \A t \in Tasks :
            AudioApplied(t)
            => LET a == Src(t)
               IN  /\ a \notin DOMAIN sessions
                      => /\ sessions'[a].session.state = "Receiving"
                         /\ sessions'[a].openai_tx = FALSE
                         /\ sessions'[a].session.audio_buffer = Pkt(t).payload
                         /\ sessions'[a].session.audio_packets = 1
                   /\ (a \in DOMAIN sessions /\ sessions[a].session.state # "Receiving")
                      => /\ sessions'[a] = sessions[a]
                         /\ pc'[t] \in {"recv", "end_lock"}
                         /\ vad_q' = vad_q
                         /\ audio_q' = audio_q
                         /\ channel_drops' = channel_drops
       /\ Len(vad_q') > Len(vad_q) => \E t \in Tasks : pc[t] = "audio_vad" /\ pc'[t] # "audio_vad"
       /\ Len(audio_q') > Len(audio_q)
          => \E t \in Tasks : pc[t] = "audio_fwd" /\ pc'[t] # "audio_fwd"]_vars

\* the first datagram applied for an address was an AudioUp, which created the
\* session; the last one was an AudioUp with payload that found the session
\* closed and Idle: its task is back at the socket and the session is empty
C27_Witness ==
    \E t, u \in Tasks :
        /\ u # t
        /\ IsSome(cur[u].pkt)
        /\ Pkt(u).pkt_type = PKT_AUDIO_UP
        /\ Src(u) = Src(t)
        /\ applied[Src(t)] # <<>>
        /\ applied[Src(t)][1] = cur[u].id
        /\ pc[t] = "recv"
        /\ IsSome(cur[t].pkt)
        /\ Pkt(t).pkt_type = PKT_AUDIO_UP
        /\ Pkt(t).payload # <<>>
        /\ Len(applied[Src(t)]) >= 2
        /\ applied[Src(t)][Len(applied[Src(t)])] = cur[t].id
        /\ Src(t) \in DOMAIN sessions
        /\ sessions[Src(t)].session.state = "Idle"
        /\ sessions[Src(t)].session.audio_buffer = <<>>
        /\ wav_files # <<>>

\* C28: reset() leaves the session Idle with an empty buffer and every counter
\* at zero: packet count, byte count, loss count, outbound sequence counter and
\* last inbound sequence number. (A session in the map is Idle only by reset().)
C28_ResetZerosAll ==
    \A a \in DOMAIN sessions :
        sessions[a].session.state = "Idle"
        => /\ sessions[a].session.audio_buffer = <<>>
           /\ sessions[a].session.audio_packets = 0
           /\ sessions[a].session.audio_bytes = 0
           /\ sessions[a].session.packets_lost = 0
           /\ sessions[a].session.out_seq = 0
           /\ sessions[a].session.last_recv_seq = 0

\* C29: when the upstream connection is lost, the reader task exits and the
\* writer task eventually exits too.
C29_BothTasksExit == upstream_lost ~> (reader_exited /\ writer_exited)

\* C30: a call of the resampler with N_in whole samples returns
\* floor(N_in * R_out / R_in) samples whenever that number exceeds 1, and
\* nothing for an empty input.
C30_OutputLength ==
    IsSome(res_ret)
    => LET n_samples == Len(res_call.pcm) \div 2
           expected == (n_samples * res_call.to_rate) \div res_call.from_rate
       IN  /\ expected > 1 => Len(Unwrap(res_ret)) = 2 * expected
           /\ res_call.pcm = <<>> => Unwrap(res_ret) = <<>>

\* 700 samples at 16 kHz came back as 1050 samples
C30_Witness ==
    /\ IsSome(res_ret)
    /\ Len(res_call.pcm) = 1400
    /\ res_call.from_rate = 16000
    /\ res_call.to_rate = 24000
    /\ Len(Unwrap(res_ret)) = 2100

\* the samples of a call's input and of its output, as byte pairs
InSample(i) == SubSeq(res_call.pcm, 2 * i - 1, 2 * i)
OutSample(i) == SubSeq(Unwrap(res_ret), 2 * i - 1, 2 * i)
InSamples == Len(res_call.pcm) \div 2
OutSamples == Len(Unwrap(res_ret)) \div 2

\* C31 as stated: for every input of more than one sample the first output
\* sample is the first input sample and the last output sample is the last
\* input sample.
C31_EndpointsAll ==
    (IsSome(res_ret) /\ InSamples > 1)
    => /\ OutSample(1) = InSample(1)
       /\ OutSample(OutSamples) = InSample(InSamples)

\* C31 amended: the same for every input of more than one sample whose output
\* has more than one sample.
C31_Endpoints ==
    (IsSome(res_ret) /\ InSamples > 1 /\ OutSamples > 1)
    => /\ OutSample(1) = InSample(1)
       /\ OutSample(OutSamples) = InSample(InSamples)

\* five samples at 24 kHz came back as three, the last input sample last
C31_Witness ==
    /\ IsSome(res_ret)
    /\ res_call.from_rate = 24000
    /\ InSamples = 5
    /\ OutSamples = 3
    /\ InSample(1) # InSample(5)
    /\ OutSample(3) = InSample(5)

\* C32: no worker has stopped while the queue is open; no packet is dequeued
\* twice, and every packet the queue accepted is queued or was dequeued; once
\* the queue is closed, the workers take what it holds, process it and all
\* stop.
C32_WorkersDrainAndStop ==
    /\ [](\A w \in Workers : wk_pc[w] = "stopped" => vad_closed)
    /\ [](\A i, j \in DOMAIN taken : i # j => taken[i].pkt.seq # taken[j].pkt.seq)
    /\ [](Len(taken) + Len(vad_q) = n_in - channel_drops)
    /\ vad_closed ~> (/\ \A w \in Workers : wk_pc[w] = "stopped"
                       /\ vad_q = <<>>
                       /\ Len(taken) = n_in - channel_drops)

\* both workers have stopped, each after taking a packet, and two packets were
\* taken after the queue had been closed
C32_Witness ==
    /\ vad_closed
    /\ \A w \in Workers : wk_pc[w] = "stopped"
    /\ vad_q = <<>>
    /\ Len(taken) = 3
    /\ \A w \in Workers : \E i \in DOMAIN taken : taken[i].worker = w
    /\ taken[2].closed
    /\ taken[3].closed

\* the smoother's state of sensor id s in state map m (Option)
EmaOf(m, s) == IF s \in DOMAIN m THEN Some(m[s]) ELSE None

\* worker w processes a sensor vector of sensor id s in this step
Smooths(w, s) ==
    /\ wk_pc[w] = "process"
    /\ wk_pc'[w] = "lock"
    /\ Unwrap(wk_pkt[w]).sensor_id = s
    /\ Unwrap(wk_pkt[w]).data_type = DATA_TYPE_SENSOR_VECTOR
    /\ IsSome(from_payload(Unwrap(wk_pkt[w]).payload))

\* C33: the smoother's state of a sensor id changes only in a step that
\* processes a sensor vector of that id, and the first such step computes it
\* from the prior state 0.
C33_SmootherPerSensor ==
    [][\A s \in SensorIds :
         EmaOf(smoother', s) # EmaOf(smoother, s)
         => \E w \in Workers :
              /\ Smooths(w, s)
              /\ s \notin DOMAIN smoother
                 => smoother'[s] =
                      ema(idle_alpha(persona),
                          Unwrap(from_payload(Unwrap(wk_pkt[w]).payload))[IDLE_TIME_IDX], 0)]_vars

\* sensor 7 was smoothed first, with idle_time 0.9 (0.05 * 0.9 = 0.045), then
\* sensor 9 with idle_time 0.5: its state is 0.05 * 0.5 = 0.025, and sensor 7's
\* is what it was
C33_Witness ==
    /\ Len(taken) = 2
    /\ taken[1].pkt.sensor_id = 7
    /\ taken[2].pkt.sensor_id = 9
    /\ DOMAIN smoother = {7, 9}
    /\ smoother[7] = 45000
    /\ smoother[9] = 25000

\* C34: the bridge step of a Cancel from a device that is not the active
\* device leaves the active-device cell as it is.
C34_ForeignCancelKeepsActive ==
    [][\A t \in Tasks :
         (Leaves(t, "cancel_clear_active") /\ active_esp # Some(Src(t)))
         => active_esp' = active_esp]_vars

\* the addresses whose session record holds the bridge's audio sender
SenderHolders == {a \in DOMAIN sessions : sessions[a].openai_tx}

\* C35: at most one session record holds the bridge's audio sender, and a
\* record that holds it is the active device's.
C35_OneSenderHolder ==
    /\ Cardinality(SenderHolders) <= 1
    /\ \A a \in SenderHolders : IsSome(active_esp) => active_esp = Some(a)

\* C36: once a SESSION_START of a device has been handled and its session is
\* Receiving, the trailing reset of a SESSION_END of that device which arrived
\* before the SESSION_START, still in flight on the other receiver task,
\* leaves the session as it is: Receiving, with its bridge sender.
C36_StaleEndKeepsSession ==
    [][\A t, u \in Tasks :
         (/\ Leaves(t, "end_reset")
          /\ Handled(u, CTRL_SESSION_START)
          /\ Src(u) = Src(t)
          /\ cur[t].id < cur[u].id
          /\ StateOf(sessions, Src(t)) = "Receiving")
         => /\ StateOf(sessions', Src(t)) = "Receiving"
            /\ sessions'[Src(t)].openai_tx = sessions[Src(t)].openai_tx]_vars

\* C37: once a SESSION_END (the command or the END flag) or a CANCEL of a
\* device has been handled and its record holds no bridge sender, the forward
\* step of an AudioUp of that device on the other receiver task puts nothing
\* into the bridge's audio queue.
C37_NoForwardAfterDetach ==
    [][\A t, u \in Tasks :
         (/\ Leaves(t, "audio_fwd")
          /\ EndHandled(u) \/ Handled(u, CTRL_CANCEL)
          /\ Src(u) = Src(t)
          /\ Src(t) \in DOMAIN sessions
          /\ ~sessions[Src(t)].openai_tx)
         => audio_q' = audio_q]_vars

\* C38: of the events written upstream, no input_audio_buffer.append of a chunk
\* of a device that arrived and was put into the audio queue before an
\* input_audio_buffer.clear of that device was issued comes after that clear.
C38_NoOldAppendAfterClear ==
    \A i, j \in 1..Len(ws_out) :
        (/\ ws_out[i].type = "input_audio_buffer.clear"
         /\ ws_out[j].type = "input_audio_buffer.append"
         /\ ws_out[j].src = ws_out[i].src
         /\ ws_out[j].id < ws_out[i].id
         /\ ws_out[j].after < ws_out[i].n)
        => j < i

\* C39: the bridge step of a SESSION_END (the command or the END flag) that
\* found its session not Receiving, or whose device is not the active device,
\* issues no input_audio_buffer.commit.
C39_NoCommitUnlessReceivingActive ==
    [][\A t \in Tasks :
         (/\ Leaves(t, "end_commit")
          /\ session_data[t] = None \/ active_esp # Some(Src(t)))
         => ctrl_q' = ctrl_q]_vars

\* C40: every step sends no or one frame on the bridge's behalf; the reader's
\* counter goes up by one (mod 2^16) with each frame sent, an audio-down
\* fragment or a Control(StreamEnd), and stays as it is otherwise; the frame
\* sent carries the counter's value before the step; an upstream event taken
\* with no active device sends nothing and leaves the counter as it is.
C40_SeqPerFrame ==
    [][LET k == Len(down_log') - Len(down_log)
       IN  /\ k \in {0, 1}
           /\ out_seq' = (out_seq + k) % U16
           /\ k = 1 => /\ SubSeq(down_log', 1, Len(down_log)) = down_log
                       /\ SeqOf(down_log'[Len(down_log')].frame) = out_seq
           /\ (ReaderTakes /\ active_esp = None)
              => k = 0 /\ out_seq' = out_seq /\ r_pc' = "next"]_vars

\* the first input was an upstream event that found no active device: nothing
\* was sent for it; the second was device A's SessionStart; the third, a delta,
\* went out as one audio-down frame, numbered 0
C40_Witness ==
    /\ n_in = 3
    /\ \A t \in Tasks : pc[t] = "recv"
    /\ applied["A"] = <<2>>
    /\ applied["B"] = <<>>
    /\ r_ev.type = "response.audio.delta"
    /\ r_ev.id = 3
    /\ r_pc = "next"
    /\ r_esp = Some("A")
    /\ Len(down_log) = 1
    /\ down_log[1].ev = 3
    /\ TypeOf(down_log[1].frame) = PKT_AUDIO_DOWN
    /\ SeqOf(down_log[1].frame) = 0
    /\ out_seq = 1

====
